---- MODULE Spec2Model ----
(***************************************************************************)
(* A model of the medical safety layer of the RAG chatbot:                 *)
(*   src/src/medical_validator.py  MedicalContentValidator,                *)
(*                                 ConflictDetector,                       *)
(*                                 create_safety_enhanced_prompt           *)
(*   src/src/medical_chatbot.py    MedicalChatbot.load_medical_documents,  *)
(*                                 MedicalChatbot.ask_medical_question     *)
(*   src/src/rag_pipeline.py       RAGPipeline.add_documents,              *)
(*                                 RAGPipeline.search_documents            *)
(*                                                                         *)
(* Strings.  TLA+ strings are atomic and ASCII, so a text is modelled as   *)
(* the sequence of its whitespace-separated words, with the line break as  *)
(* the word NEWLINE, and every Korean word is written in its revised       *)
(* romanisation (the keyword tables below give the original beside each    *)
(* romanised keyword).  What the program does with a string it does        *)
(* through three operations, each modelled by what it does to words:       *)
(*   s.lower()            Lower, LowerText                                 *)
(*   keyword in s         Substrings, Contains                             *)
(*   re.search(p, s)      re_search, for the patterns of the rule tables,  *)
(*                        all of the shape  (?:a|b).*(?:c|d).*(?:e|f)      *)
(* A confidence score is kept in tenths (0.8 is 8).                        *)
(*                                                                         *)
(* Two specifications.  Spec: one call of one operation (validate_content, *)
(* detect_conflicts, create_safety_enhanced_prompt, load_medical_documents *)
(* or ask_medical_question) from its arguments to its end.  SpecCalls:     *)
(* several callers whose calls of validate_content and detect_conflicts on *)
(* one validator and one detector interleave step by step.                 *)
(***************************************************************************)
EXTENDS Integers, Sequences, FiniteSets, TLC

NEWLINE == "\n"

(***************************************************************************)
(* Bounds of the model.                                                    *)
(***************************************************************************)
\* words in a content handed to validate_content / detect_conflicts
MaxLen == 3
\* documents returned by one search
MaxDocs == 2
\* paths in one batch of load_medical_documents
MaxBatch == 2

RECURSIVE SeqsUpTo(_, _)
SeqsUpTo(S, n) ==
    IF n = 0 THEN {<<>>}
    ELSE LET shorter == SeqsUpTo(S, n - 1)
         IN  shorter \cup {Append(s, x) : s \in shorter, x \in S}

Range(s) == {s[i] : i \in DOMAIN s}

(***************************************************************************)
(* Rule tables of MedicalContentValidator.  A pattern  A.*B.*C  is the     *)
(* sequence <<A, B, C>> of its alternations, each the set of its           *)
(* alternatives.                                                           *)
(***************************************************************************)
\* am 암, wanchi 완치, chiryo 치료, maneul 마늘, saenggang 생강,
\* minganyobeop 민간요법, hyeorap 혈압, jeongsang 정상, dangnyobyeong 당뇨병,
\* undongmaneuro 운동만으로, sigimaneuro 식이만으로, hangsaengje 항생제,
\* baireoseu 바이러스, hyogwa 효과, baeksin 백신, japye 자폐, wiheom 위험,
\* byeongwon 병원, uisa 의사, piryoeop 필요없, bulpiryo 불필요,
\* jagachiryo 자가치료, eunggeupsil 응급실, gajima 가지마, pihae 피해
_load_dangerous_patterns ==
    << [pattern |-> << {"am", "cancer"}, {"wanchi", "chiryo"},
                       {"maneul", "saenggang", "minganyobeop"} >>,
        risk |-> "DANGEROUS", message |-> "unverified cancer cure"],
       [pattern |-> << {"hyeorap", "blood pressure"}, {"200"}, {"jeongsang"} >>,
        risk |-> "DANGEROUS", message |-> "wrong normal blood pressure"],
       [pattern |-> << {"dangnyobyeong", "diabetes"}, {"wanchi"},
                       {"undongmaneuro", "sigimaneuro"} >>,
        risk |-> "DANGEROUS", message |-> "wrong diabetes cure"],
       [pattern |-> << {"hangsaengje", "antibiotic"}, {"baireoseu"}, {"hyogwa"} >>,
        risk |-> "DANGEROUS", message |-> "wrong antibiotics and virus"],
       [pattern |-> << {"baeksin", "vaccine"}, {"japye", "autism", "wiheom"} >>,
        risk |-> "DANGEROUS", message |-> "wrong vaccine information"],
       [pattern |-> << {"byeongwon", "uisa"}, {"piryoeop", "bulpiryo"},
                       {"jagachiryo"} >>,
        risk |-> "DANGEROUS", message |-> "advice excluding doctors"],
       [pattern |-> << {"eunggeupsil", "119"}, {"gajima", "pihae"} >>,
        risk |-> "DANGEROUS", message |-> "dangerous emergency advice"] >>

\* gohyeorap 고혈압, najeun 낮은, jeohyeorap 저혈압, gamgi 감기, piryo 필요,
\* insyullin 인슐린, jungdok 중독, bitamin 비타민, gwadaseopchwi 과다섭취,
\* anjeon 안전
_load_misinformation_patterns ==
    << [pattern |-> << {"gohyeorap", "hypertension"}, {"najeun", "jeohyeorap"} >>,
        category |-> "definition error",
        correction |-> "hypertension is high blood pressure"],
       [pattern |-> << {"gamgi", "cold"}, {"hangsaengje"}, {"piryo"} >>,
        category |-> "treatment error",
        correction |-> "antibiotics do not work on a cold"],
       [pattern |-> << {"insyullin", "insulin"}, {"jungdok"}, {"wiheom"} >>,
        category |-> "drug misconception",
        correction |-> "insulin is essential for diabetes"],
       [pattern |-> << {"bitamin", "vitamin"}, {"gwadaseopchwi"}, {"anjeon"} >>,
        category |-> "nutrient misconception",
        correction |-> "some vitamins harm in excess"] >>

\* simjangmabi 심장마비, simjeongji 심정지, uisigireum 의식잃음,
\* hoheupgollan 호흡곤란, simhangaseumtongjeung 심한가슴통증,
\* daeryangchulhyeol 대량출혈, goljeol 골절, hwasang 화상, jungdok 중독,
\* allereugisyokeu 알레르기쇼크, noejoljung 뇌졸중, gyeongnyeon 경련,
\* baljak 발작, eunggeup 응급, wigeup 위급, simgak 심각
_load_emergency_keywords ==
    << "simjangmabi", "simjeongji", "uisigireum", "hoheupgollan",
       "simhangaseumtongjeung", "daeryangchulhyeol", "goljeol", "hwasang",
       "jungdok", "allereugisyokeu", "noejoljung", "gyeongnyeon", "baljak",
       "eunggeup", "wigeup", "simgak" >>

\* jilbyeonggwallicheong 질병관리청, daehanuihakhoe 대한의학회,
\* daehanuisahyeophoe 대한의사협회, bogeonbokjibu 보건복지부,
\* uihaknonmun 의학논문, byeongwongongsikjaryo 병원공식자료,
\* uigwadaehak 의과대학, ganhodaehak 간호대학
_load_trusted_sources ==
    << "jilbyeonggwallicheong", "daehanuihakhoe", "daehanuisahyeophoe",
       "bogeonbokjibu", "WHO", "CDC", "Mayo Clinic", "WebMD", "uihaknonmun",
       "byeongwongongsikjaryo", "uigwadaehak", "ganhodaehak" >>

\* gaein 개인, hugi 후기, gyeongheomdam 경험담
personal_sources == << "blog", "cafe", "gaein", "hugi", "gyeongheomdam" >>

\* nyuseu 뉴스, japji 잡지
media_sources == << "news", "nyuseu", "japji", "magazine" >>

\* The attributes of the validator and of the detector of a chatbot: the rule
\* tables and the fact table.  The methods read them through self.
VARIABLE tables

\* MedicalContentValidator.__init__
dangerous_patterns == tables.dangerous_patterns
medical_misinformation == tables.medical_misinformation
emergency_keywords == tables.emergency_keywords
trusted_sources == tables.trusted_sources

(***************************************************************************)
(* The three string operations.                                            *)
(***************************************************************************)
\* str.lower() of one word: the words of the model that hold a capital.
Lower(w) ==
    CASE w = "WHO" -> "who"
      [] w = "CDC" -> "cdc"
      [] w = "Mayo Clinic" -> "mayo clinic"
      [] w = "WebMD" -> "webmd"
      [] w = "Vaccine" -> "vaccine"
      [] w = "Unknown" -> "unknown"
      [] w = "/blog/WHO_guide.txt" -> "/blog/who_guide.txt"
      [] w = "WHO_guide.txt" -> "who_guide.txt"
      [] OTHER -> w

LowerText(text) == [i \in DOMAIN text |-> Lower(text[i])]

\* every keyword of the rule tables and of the two callers' keyword lists
\* ganeung 가능, doenda 된다, gaseumtongjeung 가슴통증
Keywords ==
    UNION {UNION Range(_load_dangerous_patterns[i].pattern) :
               i \in DOMAIN _load_dangerous_patterns}
    \cup UNION {UNION Range(_load_misinformation_patterns[i].pattern) :
                    i \in DOMAIN _load_misinformation_patterns}
    \cup Range(_load_emergency_keywords)
    \cup {Lower(_load_trusted_sources[i]) : i \in DOMAIN _load_trusted_sources}
    \cup Range(personal_sources) \cup Range(media_sources)
    \cup {"ganeung", "doenda", "gaseumtongjeung"}

\* The keywords that occur in the word w as substrings (case-sensitive, as
\* Python's  in  is).  A keyword occurs in itself; the table lists the words
\* of the model that hold a keyword other than themselves, computed from the
\* original strings.
\* gohyeorabeun 고혈압은, hyeorabi 혈압이, gaeinbeullogeu 개인블로그
Substrings(w) ==
    CASE w = "piryoeop" -> {"piryoeop", "piryo"}
      [] w = "bulpiryo" -> {"bulpiryo", "piryo"}
      [] w = "jagachiryo" -> {"jagachiryo", "chiryo"}
      [] w = "eunggeupsil" -> {"eunggeupsil", "eunggeup"}
      [] w = "gohyeorap" -> {"gohyeorap", "hyeorap"}
      [] w = "jeohyeorap" -> {"jeohyeorap", "hyeorap"}
      [] w = "simhangaseumtongjeung" -> {"simhangaseumtongjeung", "gaseumtongjeung"}
      [] w = "daehanuisahyeophoe" -> {"daehanuisahyeophoe", "uisa"}
      [] w = "byeongwongongsikjaryo" -> {"byeongwongongsikjaryo", "byeongwon"}
      [] w = "gohyeorabeun" -> {"gohyeorap", "hyeorap"}
      [] w = "hyeorabi" -> {"hyeorap"}
      [] w = "gaeinbeullogeu" -> {"gaein"}
      [] w = "/data/blog_medical.txt" -> {"blog"}
      [] w = "blog_medical.txt" -> {"blog"}
      [] w = "my_blog.txt" -> {"blog"}
      [] w = "/blog/WHO_guide.txt" -> {"blog"}
      [] w = "/blog/who_guide.txt" -> {"blog", "who"}
      [] w = "who_guide.txt" -> {"who"}
      [] w = "/data/news_cafe.txt" -> {"news", "cafe"}
      [] w = "news_cafe.txt" -> {"news", "cafe"}
      [] w = "news_article.txt" -> {"news"}
      [] OTHER -> IF w \in Keywords THEN {w} ELSE {}

\* keyword in text
Contains(text, keyword) == \E i \in DOMAIN text : keyword \in Substrings(text[i])

\* The alternations k.. of the pattern occur in this order in the words i.. of
\* the text, before the end of the line ( .  matches no line break).  No word of
\* the model holds two successive alternations of one pattern, so successive
\* alternations lie in successive words.
RECURSIVE MatchRest(_, _, _, _)
MatchRest(pattern, text, k, i) ==
    IF k > Len(pattern) THEN TRUE
    ELSE IF i > Len(text) THEN FALSE
    ELSE IF text[i] = NEWLINE THEN FALSE
    ELSE IF pattern[k] \cap Substrings(text[i]) # {}
         THEN MatchRest(pattern, text, k + 1, i + 1)
         ELSE MatchRest(pattern, text, k, i + 1)

\* re.search(pattern, text, re.IGNORECASE) on a lower-cased text
re_search(pattern, text) ==
    \E i \in DOMAIN text :
        /\ pattern[1] \cap Substrings(text[i]) # {}
        /\ MatchRest(pattern, text, 2, i + 1)

(***************************************************************************)
(* Values.                                                                 *)
(***************************************************************************)
\* Python's None
None == [none |-> TRUE]

\* RiskLevel, ReliabilityLevel
RiskLevel == {"SAFE", "CAUTION", "DANGEROUS"}
ReliabilityLevel == {"HIGH", "MEDIUM", "LOW", "UNKNOWN"}

\* A metadata dict is the set of its <<key, value>> items; the empty set is
\* the empty dict and None alike (both are false in  if metadata ).
get(metadata, key, default) ==
    IF \E item \in metadata : item[1] = key
    THEN (CHOOSE item \in metadata : item[1] = key)[2]
    ELSE default

Max(a, b) == IF a >= b THEN a ELSE b

(***************************************************************************)
(* MedicalContentValidator                                                 *)
(***************************************************************************)
_check_dangerous_patterns(content) ==
    LET content_lower == LowerText(content)
    IN  SelectSeq(dangerous_patterns,
                  LAMBDA pattern_info : re_search(pattern_info.pattern, content_lower))

_check_misinformation(content) ==
    LET content_lower == LowerText(content)
    IN  SelectSeq(medical_misinformation,
                  LAMBDA misinfo : re_search(misinfo.pattern, content_lower))

_check_emergency_keywords(content) ==
    LET content_lower == LowerText(content)
    IN  SelectSeq(emergency_keywords,
                  LAMBDA keyword : Contains(content_lower, keyword))

ExistsIn(keywords, source, file_name) ==
    \E i \in DOMAIN keywords :
        \/ keywords[i] \in Substrings(source)
        \/ keywords[i] \in Substrings(file_name)

\* the personal keywords looked up before the trusted ones
_assess_source_reliability_personal_first(metadata) ==
    LET source == Lower(get(metadata, "source", ""))
        file_name == Lower(get(metadata, "file_name", ""))
    IN  IF ExistsIn(personal_sources, source, file_name) THEN "LOW"
        ELSE IF ExistsIn([i \in DOMAIN trusted_sources |-> Lower(trusted_sources[i])],
                         source, file_name)
        THEN "HIGH"
        ELSE IF ExistsIn(media_sources, source, file_name) THEN "MEDIUM"
        ELSE "UNKNOWN"

\* the personal and the media level exchanged
_assess_source_reliability_swapped(metadata) ==
    LET source == Lower(get(metadata, "source", ""))
        file_name == Lower(get(metadata, "file_name", ""))
    IN  IF ExistsIn([i \in DOMAIN trusted_sources |-> Lower(trusted_sources[i])],
                    source, file_name)
        THEN "HIGH"
        ELSE IF ExistsIn(personal_sources, source, file_name) THEN "MEDIUM"
        ELSE IF ExistsIn(media_sources, source, file_name) THEN "LOW"
        ELSE "UNKNOWN"

_assess_source_reliability(metadata) ==
    LET source == Lower(get(metadata, "source", ""))
        file_name == Lower(get(metadata, "file_name", ""))
    IN  IF ExistsIn([i \in DOMAIN trusted_sources |-> Lower(trusted_sources[i])],
                    source, file_name)
        THEN "HIGH"
        ELSE IF ExistsIn(personal_sources, source, file_name) THEN "LOW"
        ELSE IF ExistsIn(media_sources, source, file_name) THEN "MEDIUM"
        ELSE "UNKNOWN"

\* f"잠재적 오류: {category}"
PotentialError(category) ==
    CASE category = "definition error" -> "potential error: definition error"
      [] category = "treatment error" -> "potential error: treatment error"
      [] category = "drug misconception" -> "potential error: drug misconception"
      [] category = "nutrient misconception" ->
            "potential error: nutrient misconception"

\* The locals of validate_content before step 1.
ValidateStart ==
    [warnings |-> <<>>, recommendations |-> <<>>, risk_level |-> "SAFE",
     reliability |-> "UNKNOWN", confidence_score |-> 8]

\* 1. dangerous patterns
ValidateDangerous(v, content) ==
    LET dangerous_found == _check_dangerous_patterns(content)
    IN  IF dangerous_found # <<>>
        THEN [v EXCEPT
                !.risk_level = "DANGEROUS",
                !.warnings = @ \o [i \in DOMAIN dangerous_found |->
                                      dangerous_found[i].message],
                !.recommendations = Append(@, "consult a specialist"),
                !.confidence_score = @ - 4]
        ELSE v

\* step 2 without the test  risk_level != DANGEROUS
ValidateMisinformation_overwrites(v, content) ==
    LET misinformation_found == _check_misinformation(content)
    IN  IF misinformation_found # <<>>
        THEN [v EXCEPT
                !.risk_level = "CAUTION",
                !.warnings = @ \o [i \in DOMAIN misinformation_found |->
                                      PotentialError(misinformation_found[i].category)],
                !.recommendations = @ \o [i \in DOMAIN misinformation_found |->
                                             misinformation_found[i].correction],
                !.confidence_score = @ - 2]
        ELSE v

\* step 2 made only when the risk is not DANGEROUS
ValidateMisinformation_skipped_when_dangerous(v, content) ==
    LET misinformation_found == _check_misinformation(content)
    IN  IF misinformation_found # <<>> /\ v.risk_level # "DANGEROUS"
        THEN [v EXCEPT
                !.risk_level = "CAUTION",
                !.warnings = @ \o [i \in DOMAIN misinformation_found |->
                                      PotentialError(misinformation_found[i].category)],
                !.recommendations = @ \o [i \in DOMAIN misinformation_found |->
                                             misinformation_found[i].correction],
                !.confidence_score = @ - 2]
        ELSE v

\* step 2 with 0.2 deducted for each matching rule
ValidateMisinformation_per_match(v, content) ==
    LET misinformation_found == _check_misinformation(content)
    IN  IF misinformation_found # <<>>
        THEN [v EXCEPT
                !.risk_level = IF @ # "DANGEROUS" THEN "CAUTION" ELSE @,
                !.warnings = @ \o [i \in DOMAIN misinformation_found |->
                                      PotentialError(misinformation_found[i].category)],
                !.recommendations = @ \o [i \in DOMAIN misinformation_found |->
                                             misinformation_found[i].correction],
                !.confidence_score = @ - 2 * Len(misinformation_found)]
        ELSE v

\* 2. misinformation patterns
ValidateMisinformation(v, content) ==
    LET misinformation_found == _check_misinformation(content)
    IN  IF misinformation_found # <<>>
        THEN [v EXCEPT
                !.risk_level = IF @ # "DANGEROUS" THEN "CAUTION" ELSE @,
                !.warnings = @ \o [i \in DOMAIN misinformation_found |->
                                      PotentialError(misinformation_found[i].category)],
                !.recommendations = @ \o [i \in DOMAIN misinformation_found |->
                                             misinformation_found[i].correction],
                !.confidence_score = @ - 2]
        ELSE v

\* step 3 with the warning and the deduction only while the risk is SAFE
ValidateReliability_only_when_safe(v, metadata) ==
    IF metadata # {}
    THEN LET reliability == _assess_source_reliability(metadata)
         IN  IF reliability = "LOW" /\ v.risk_level = "SAFE"
             THEN [v EXCEPT
                     !.reliability = reliability,
                     !.risk_level = "CAUTION",
                     !.warnings = Append(@, "low reliability source"),
                     !.confidence_score = @ - 3]
             ELSE [v EXCEPT !.reliability = reliability]
    ELSE v

\* step 3 setting the risk to CAUTION for every LOW source
ValidateReliability_overwrites(v, metadata) ==
    IF metadata # {}
    THEN LET reliability == _assess_source_reliability(metadata)
         IN  IF reliability = "LOW"
             THEN [v EXCEPT
                     !.reliability = reliability,
                     !.risk_level = "CAUTION",
                     !.warnings = Append(@, "low reliability source"),
                     !.confidence_score = @ - 3]
             ELSE [v EXCEPT !.reliability = reliability]
    ELSE v

\* 3. source reliability
ValidateReliability(v, metadata) ==
    IF metadata # {}
    THEN LET reliability == _assess_source_reliability(metadata)
         IN  IF reliability = "LOW"
             THEN [v EXCEPT
                     !.reliability = reliability,
                     !.risk_level = IF @ = "SAFE" THEN "CAUTION" ELSE @,
                     !.warnings = Append(@, "low reliability source"),
                     !.confidence_score = @ - 3]
             ELSE [v EXCEPT !.reliability = reliability]
    ELSE v

\* step 4 with one warning and one recommendation for each keyword found
ValidateEmergency_per_keyword(v, content) ==
    LET emergency_found == _check_emergency_keywords(content)
    IN  [v EXCEPT
            !.warnings = @ \o [i \in DOMAIN emergency_found |->
                                  "emergency content detected"],
            !.recommendations = @ \o [i \in DOMAIN emergency_found |->
                                         "call 119 or visit the emergency room"]]

\* 4. emergency keywords
ValidateEmergency(v, content) ==
    LET emergency_found == _check_emergency_keywords(content)
    IN  IF emergency_found # <<>>
        THEN [v EXCEPT
                !.warnings = Append(@, "emergency content detected"),
                !.recommendations = Append(@, "call 119 or visit the emergency room")]
        ELSE v

\* step 5 with  is_safe = (risk_level == SAFE)
ValidationResult_safe_only(v) ==
    [is_safe |-> v.risk_level = "SAFE",
     risk_level |-> v.risk_level,
     reliability |-> v.reliability,
     warnings |-> v.warnings,
     recommendations |-> v.recommendations,
     confidence_score |-> Max(1, v.confidence_score)]

\* step 5 without  max(0.1, confidence_score)
ValidationResult_unclamped(v) ==
    [is_safe |-> v.risk_level # "DANGEROUS",
     risk_level |-> v.risk_level,
     reliability |-> v.reliability,
     warnings |-> v.warnings,
     recommendations |-> v.recommendations,
     confidence_score |-> v.confidence_score]

\* 5. the ValidationResult
ValidationResult(v) ==
    [is_safe |-> v.risk_level # "DANGEROUS",
     risk_level |-> v.risk_level,
     reliability |-> v.reliability,
     warnings |-> v.warnings,
     recommendations |-> v.recommendations,
     confidence_score |-> Max(1, v.confidence_score)]

validate_content(content, metadata) ==
    ValidationResult(
        ValidateEmergency(
            ValidateReliability(
                ValidateMisinformation(
                    ValidateDangerous(ValidateStart, content),
                    content),
                metadata),
            content))

(***************************************************************************)
(* ConflictDetector                                                        *)
(***************************************************************************)
\* goyeorap_jeongui 고혈압_정의, dangnyobyeong_wanchi 당뇨병_완치,
\* gamgi_hangsaengje 감기_항생제, jeongsangcheon 정상체온,
\* eunggeupsil_bangmun 응급실_방문; a dict keeps its insertion order
_load_medical_facts ==
    << [key |-> "gohyeorap_jeongui",
        value |-> "blood pressure above normal (140/90mmHg or more)"],
       [key |-> "dangnyobyeong_wanchi",
        value |-> "diabetes is managed, not cured"],
       [key |-> "gamgi_hangsaengje",
        value |-> "a cold is viral, antibiotics do not work"],
       [key |-> "jeongsangcheon",
        value |-> "36.5-37.5 degrees is normal body temperature"],
       [key |-> "eunggeupsil_bangmun",
        value |-> "unconscious, dyspnea, chest pain: emergency room at once"] >>

\* ConflictDetector.__init__
known_medical_facts == tables.known_medical_facts

_check_specific_conflict(content, fact_key, fact_value) ==
    IF fact_key = "gohyeorap_jeongui"
    THEN IF /\ Contains(content, "gohyeorap")
            /\ (Contains(content, "najeun") \/ Contains(content, "jeohyeorap"))
         THEN [type |-> "definition conflict",
               description |-> "hypertension described as low blood pressure",
               standard |-> fact_value]
         ELSE None
    ELSE IF fact_key = "dangnyobyeong_wanchi"
    THEN IF /\ Contains(content, "dangnyobyeong")
            /\ Contains(content, "wanchi")
            /\ (Contains(content, "ganeung") \/ Contains(content, "doenda"))
         THEN [type |-> "treatment information conflict",
               description |-> "claims diabetes can be cured",
               standard |-> fact_value]
         ELSE None
    ELSE IF fact_key = "gamgi_hangsaengje"
    THEN IF /\ Contains(content, "gamgi")
            /\ Contains(content, "hangsaengje")
            /\ (Contains(content, "hyogwa") \/ Contains(content, "chiryo"))
         THEN [type |-> "treatment conflict",
               description |-> "claims antibiotics work on a cold",
               standard |-> fact_value]
         ELSE None
    ELSE None

\* the iteration handing the text of the first fact to every predicate
DetectIteration_first_fact_text(content_lower, i, acc) ==
    LET fact == known_medical_facts[i]
        conflict_info == _check_specific_conflict(content_lower, fact.key,
                                                  known_medical_facts[1].value)
    IN  IF conflict_info # None
        THEN [conflicts |-> Append(acc.conflicts, conflict_info),
              suggestions |-> Append(acc.suggestions,
                                     <<"generally known: ", fact.value>>)]
        ELSE acc

\* one iteration of the loop of detect_conflicts, on the i-th fact of the table
DetectIteration(content_lower, i, acc) ==
    LET fact == known_medical_facts[i]
        conflict_info == _check_specific_conflict(content_lower, fact.key, fact.value)
    IN  IF conflict_info # None
        THEN [conflicts |-> Append(acc.conflicts, conflict_info),
              suggestions |-> Append(acc.suggestions,
                                     <<"generally known: ", fact.value>>)]
        ELSE acc

\* the loop going through the table from its last fact to its first
RECURSIVE DetectFrom_backwards(_, _, _)
DetectFrom_backwards(content_lower, i, acc) ==
    IF i > Len(known_medical_facts) THEN acc
    ELSE DetectIteration(content_lower, i, DetectFrom_backwards(content_lower, i + 1, acc))

\* the loop of detect_conflicts over the facts i.. of the table
RECURSIVE DetectFrom(_, _, _)
DetectFrom(content_lower, i, acc) ==
    IF i > Len(known_medical_facts) THEN acc
    ELSE DetectFrom(content_lower, i + 1, DetectIteration(content_lower, i, acc))

\* the dict with  "confidence": 0.9  whatever the conflicts
detect_conflicts_constant_confidence(rag_content) ==
    LET found == DetectFrom(LowerText(rag_content), 1,
                            [conflicts |-> <<>>, suggestions |-> <<>>])
    IN  [has_conflicts |-> Len(found.conflicts) > 0,
         conflicts |-> found.conflicts,
         suggestions |-> found.suggestions,
         confidence |-> 9]

detect_conflicts(rag_content) ==
    LET found == DetectFrom(LowerText(rag_content), 1,
                            [conflicts |-> <<>>, suggestions |-> <<>>])
    IN  [has_conflicts |-> Len(found.conflicts) > 0,
         conflicts |-> found.conflicts,
         suggestions |-> found.suggestions,
         confidence |-> IF found.conflicts # <<>> THEN 9 ELSE 1]

(***************************************************************************)
(* RAGPipeline.add_documents: chunks[i] is what processing and indexing    *)
(* the i-th file gives, its number of chunks or 0 when it raises.          *)
(***************************************************************************)
RECURSIVE AddFrom(_, _, _, _, _)
AddFrom(file_paths, files, chunks, i, results) ==
    IF i > Len(file_paths) THEN results
    ELSE LET file_path == file_paths[i]
         IN  AddFrom(file_paths, files, chunks, i + 1,
                 IF ~files[file_path].exists
                 THEN [results EXCEPT !.failed =
                          Append(@, [file |-> file_path, error |-> "File not found"])]
                 ELSE IF chunks[i] = 0
                 THEN [results EXCEPT !.failed =
                          Append(@, [file |-> file_path, error |-> "processing failed"])]
                 ELSE [results EXCEPT
                          !.success = Append(@, [file |-> file_path, chunks |-> chunks[i]]),
                          !.total_chunks = @ + chunks[i]])

add_documents(file_paths, files, chunks) ==
    AddFrom(file_paths, files, chunks, 1,
            [success |-> <<>>, failed |-> <<>>, total_chunks |-> 0])

(***************************************************************************)
(* MedicalChatbot.load_medical_documents                                   *)
(***************************************************************************)
\* os.path.basename
basename(file_path) ==
    CASE file_path = "/data/safe_medical.txt" -> "safe_medical.txt"
      [] file_path = "/data/blog_medical.txt" -> "blog_medical.txt"
      [] file_path = "/blog/WHO_guide.txt" -> "WHO_guide.txt"
      [] OTHER -> file_path

\* the loop without the test  validation.is_safe
RECURSIVE ValidateFilesFrom_unfiltered(_, _, _, _)
ValidateFilesFrom_unfiltered(file_paths, files, i, acc) ==
    IF i > Len(file_paths) THEN acc
    ELSE LET file_path == file_paths[i]
             metadata == {<<"source", file_path>>, <<"file_name", basename(file_path)>>}
             validation == validate_content(files[file_path].content, metadata)
         IN  ValidateFilesFrom_unfiltered(file_paths, files, i + 1,
                 IF files[file_path].exists /\ files[file_path].readable
                 THEN [validation_results |->
                          Append(acc.validation_results,
                                 [file |-> file_path, validation |-> validation]),
                       safe_files |-> Append(acc.safe_files, file_path)]
                 ELSE acc)

\* the loop left at the first file that is missing or cannot be read
RECURSIVE ValidateFilesFrom_stops_at_failure(_, _, _, _)
ValidateFilesFrom_stops_at_failure(file_paths, files, i, acc) ==
    IF i > Len(file_paths) THEN acc
    ELSE LET file_path == file_paths[i]
             metadata == {<<"source", file_path>>, <<"file_name", basename(file_path)>>}
             validation == validate_content(files[file_path].content, metadata)
         IN  IF files[file_path].exists /\ files[file_path].readable
             THEN ValidateFilesFrom_stops_at_failure(file_paths, files, i + 1,
                      [validation_results |->
                          Append(acc.validation_results,
                                 [file |-> file_path, validation |-> validation]),
                       safe_files |->
                          IF validation.is_safe
                          THEN Append(acc.safe_files, file_path)
                          ELSE acc.safe_files])
             ELSE acc

\* the loop keeping only the files whose risk is SAFE
RECURSIVE ValidateFilesFrom_blocks_caution(_, _, _, _)
ValidateFilesFrom_blocks_caution(file_paths, files, i, acc) ==
    IF i > Len(file_paths) THEN acc
    ELSE LET file_path == file_paths[i]
             metadata == {<<"source", file_path>>, <<"file_name", basename(file_path)>>}
             validation == validate_content(files[file_path].content, metadata)
         IN  ValidateFilesFrom_blocks_caution(file_paths, files, i + 1,
                 IF files[file_path].exists /\ files[file_path].readable
                 THEN [validation_results |->
                          Append(acc.validation_results,
                                 [file |-> file_path, validation |-> validation]),
                       safe_files |->
                          IF validation.risk_level = "SAFE"
                          THEN Append(acc.safe_files, file_path)
                          ELSE acc.safe_files]
                 ELSE acc)

\* the validation loop over the paths i.. of the batch
RECURSIVE ValidateFilesFrom(_, _, _, _)
ValidateFilesFrom(file_paths, files, i, acc) ==
    IF i > Len(file_paths) THEN acc
    ELSE LET file_path == file_paths[i]
             metadata == {<<"source", file_path>>, <<"file_name", basename(file_path)>>}
             validation == validate_content(files[file_path].content, metadata)
         IN  ValidateFilesFrom(file_paths, files, i + 1,
                 IF files[file_path].exists /\ files[file_path].readable
                 THEN [validation_results |->
                          Append(acc.validation_results,
                                 [file |-> file_path, validation |-> validation]),
                       safe_files |->
                          IF validation.is_safe
                          THEN Append(acc.safe_files, file_path)
                          ELSE acc.safe_files]
                 ELSE acc)

\* the value load_medical_documents returns, and in  added  the lists it
\* handed to add_documents
load_medical_documents(file_paths, files, chunks) ==
    LET checked == ValidateFilesFrom(file_paths, files, 1,
                       [validation_results |-> <<>>, safe_files |-> <<>>])
        safe_files == checked.safe_files
        result == add_documents(safe_files, files, chunks)
    IN  IF safe_files # <<>>
        THEN [added |-> <<safe_files>>,
              result |->
                [success |-> result.success,
                 failed |-> result.failed,
                 total_chunks |-> result.total_chunks,
                 validation_results |-> checked.validation_results,
                 safe_files |-> safe_files,
                 blocked_files |->
                    SelectSeq(file_paths, LAMBDA f : f \notin Range(safe_files))]]
        ELSE [added |-> <<>>,
              result |->
                [success |-> <<>>,
                 failed |-> file_paths,
                 total_chunks |-> 0,
                 validation_results |-> checked.validation_results,
                 safe_files |-> <<>>,
                 blocked_files |-> file_paths]]

(***************************************************************************)
(* MedicalChatbot.ask_medical_question: the values it computes.  A text    *)
(* that the program assembles is the sequence of the fragments it is       *)
(* assembled from.                                                         *)
(***************************************************************************)
\* the list without gaseumtongjeung 가슴통증
question_emergency_keywords_without_chest_pain ==
    << "eunggeup", "wigeup", "simgak", "uisigireum", "hoheupgollan", "simjangmabi" >>

\* the local emergency_keywords of ask_medical_question
question_emergency_keywords ==
    << "eunggeup", "wigeup", "simgak", "uisigireum", "hoheupgollan",
       "gaseumtongjeung", "simjangmabi" >>

\* sep.join(parts), each part a sequence of fragments
RECURSIVE join(_, _)
join(sep, parts) ==
    IF parts = <<>> THEN <<>>
    ELSE IF Len(parts) = 1 THEN parts[1]
    ELSE parts[1] \o <<sep>> \o join(sep, Tail(parts))

\* " [신뢰도 낮음]", " [신뢰할 만한 출처]" or ""
ReliabilityInfo(validation) ==
    IF validation.reliability = "LOW" THEN <<"[low reliability]">>
    ELSE IF validation.reliability = "HIGH" THEN <<"[trusted source]">>
    ELSE <<>>

\* f"[출처: {source_info}{reliability_info}]\n{result['content']}"
ContextPart(result, validation) ==
    LET source_info == get(result.metadata, "file_name", "Unknown")
    IN  <<"[source:", source_info>> \o ReliabilityInfo(validation) \o <<"]", NEWLINE>>
            \o result.content

\* "\n".join([result['content'] for result in search_results])
CombinedContent(results) ==
    join(NEWLINE, [i \in DOMAIN results |-> results[i].content])

EmergencyResponse(q) ==
    [answer |-> <<"EMERGENCY: call 119 or go to the nearest emergency room">>,
     type |-> "emergency",
     sources |-> <<>>,
     query |-> q,
     safety_level |-> "critical"]

NoResultResponse(q) ==
    [answer |-> <<"no medical information found, consult a doctor">>,
     type |-> "no_result",
     sources |-> <<>>,
     query |-> q,
     safety_level |-> "safe"]

BlockedResponse(q, validation) ==
    [answer |-> <<"dangerous content detected in the search results. problems: ">>
                \o join("; ", [i \in DOMAIN validation.warnings |->
                                  <<validation.warnings[i]>>])
                \o <<"not provided for safety, consult a doctor">>,
     type |-> "blocked_dangerous",
     sources |-> <<>>,
     query |-> q,
     safety_level |-> "blocked",
     validation_warnings |-> validation.warnings]

ErrorResponse(q, e) ==
    [answer |-> <<"error while answering, consult a doctor. (error: ", e, ")">>,
     type |-> "error",
     sources |-> <<>>,
     query |-> q,
     safety_level |-> "error"]

\* the footer with the conflict notice whatever conflict_info says
SafetyMessages_always_notice(validation, conflicts) ==
    << <<"consult a doctor for diagnosis and treatment">> >>
    \o [i \in DOMAIN validation.warnings |-> <<"* ", validation.warnings[i]>>]
    \o << <<"* may differ from general medical knowledge">> >>
    \o [i \in DOMAIN validation.recommendations |->
           <<"* ", validation.recommendations[i]>>]

\* 9. the safety footer
SafetyMessages(validation, conflicts) ==
    << <<"consult a doctor for diagnosis and treatment">> >>
    \o [i \in DOMAIN validation.warnings |-> <<"* ", validation.warnings[i]>>]
    \o (IF conflicts.has_conflicts
        THEN << <<"* may differ from general medical knowledge">> >>
        ELSE <<>>)
    \o [i \in DOMAIN validation.recommendations |->
           <<"* ", validation.recommendations[i]>>]

\* result['metadata'].get('file_name', 'Unknown') of every result
FileNames(results) ==
    [i \in DOMAIN results |-> get(results[i].metadata, "file_name", "Unknown")]

\* list(set(names)): every order of the distinct names (a set of strings is
\* iterated in hash order)
ListOfSet(names) ==
    LET S == Range(names)
    IN  {order \in [1..Cardinality(S) -> S] : Range(order) = S}

\* the level without the caution case
SafetyLevel_two_levels(validation) ==
    IF validation.risk_level = "DANGEROUS" THEN "dangerous" ELSE "safe"

SafetyLevel(validation) ==
    IF validation.risk_level = "CAUTION" THEN "caution"
    ELSE IF validation.risk_level = "DANGEROUS" THEN "dangerous"
    ELSE "safe"

ValidatedResponse(q, results, validation, conflicts, content, sources) ==
    [answer |-> <<content, "\n\n">> \o join(NEWLINE, SafetyMessages(validation, conflicts)),
     type |-> "medical_info_validated",
     sources |-> sources,
     query |-> q,
     search_results |-> results,
     safety_level |-> SafetyLevel(validation),
     validation_result |->
        [risk_level |-> validation.risk_level,
         reliability |-> validation.reliability,
         confidence_score |-> validation.confidence_score,
         warnings |-> validation.warnings,
         recommendations |-> validation.recommendations],
     conflict_info |-> conflicts,
     enhanced_safety |-> TRUE]

(***************************************************************************)
(* create_safety_enhanced_prompt: the prompt is the sequence of the        *)
(* fragments it is assembled from, block by block.                         *)
(***************************************************************************)
BasePrompt ==
    "you are a medical information assistant. safety directives: 1. never diagnose or prescribe 2. advise consulting medical staff for serious symptoms 3. in an emergency put calling 119 first"

DangerousBlock ==
    "DANGER: the documents hold dangerous information; do not trust it; advise consulting a specialist"

CautionBlock ==
    "CAUTION: the reliability of the information is uncertain; give it with general medical knowledge; advise confirmation by a specialist"

ConflictBlock ==
    "CONFLICT: the documents and general medical knowledge disagree; mention both and explain the difference; advise confirmation by medical staff"

WarningsHeader == "detected warnings:"

\* 정확한 진단과 치료를 위해서는 의료진과 상담하시기 바랍니다
DisclaimerSentence == "consult medical staff for accurate diagnosis and treatment"

ClosingBlock ==
    << "context information:", "{context}",
       "the answer must include: a clear explanation, related cautions, the sentence",
       DisclaimerSentence >>

\* the prompt with the conflict block for every conflict_info given
create_safety_enhanced_prompt_any_conflict_info(validation_result, conflict_info) ==
    <<BasePrompt>>
    \o (IF validation_result.risk_level = "DANGEROUS" THEN <<DangerousBlock>>
        ELSE IF validation_result.risk_level = "CAUTION" THEN <<CautionBlock>>
        ELSE <<>>)
    \o (IF conflict_info # None THEN <<ConflictBlock>> ELSE <<>>)
    \o (IF validation_result.warnings # <<>>
        THEN <<WarningsHeader>>
             \o join(NEWLINE, [i \in DOMAIN validation_result.warnings |->
                                  <<"- ", validation_result.warnings[i]>>])
        ELSE <<>>)
    \o ClosingBlock

create_safety_enhanced_prompt(validation_result, conflict_info) ==
    <<BasePrompt>>
    \o (IF validation_result.risk_level = "DANGEROUS" THEN <<DangerousBlock>>
        ELSE IF validation_result.risk_level = "CAUTION" THEN <<CautionBlock>>
        ELSE <<>>)
    \o (IF conflict_info # None /\ conflict_info.has_conflicts
        THEN <<ConflictBlock>>
        ELSE <<>>)
    \o (IF validation_result.warnings # <<>>
        THEN <<WarningsHeader>>
             \o join(NEWLINE, [i \in DOMAIN validation_result.warnings |->
                                  <<"- ", validation_result.warnings[i]>>])
        ELSE <<>>)
    \o ClosingBlock

(***************************************************************************)
(* DocumentProcessor.process_file                                          *)
(***************************************************************************)
\* hashlib.md5(text.encode()).hexdigest()[:8] of the chunk texts of the model
\* ("gohyeorap", "Vaccine wiheom")
md5_8(page_content) ==
    CASE page_content = <<"gohyeorap">> -> "3407b43f"
      [] page_content = <<"Vaccine", "wiheom">> -> "101e1726"

\* metadata.update(other): the items of other replace those with their keys
update(metadata, other) ==
    {item \in metadata : ~\E o \in other : o[1] = item[1]} \cup other

\* the metadata with chunk_index counted from 1
ChunkMetadata_from_one(file_path, split_docs, k) ==
    LET metadata == { <<"source", file_path>>,
                      <<"chunk_index", k>>,
                      <<"total_chunks", Len(split_docs)>>,
                      <<"file_name", basename(file_path)>> }
    IN  IF split_docs[k].metadata # {}
        THEN update(metadata, split_docs[k].metadata)
        ELSE metadata

\* the metadata dict of the chunk at position k (k = i + 1 for enumerate's i)
ChunkMetadata(file_path, split_docs, k) ==
    LET metadata == { <<"source", file_path>>,
                      <<"chunk_index", k - 1>>,
                      <<"total_chunks", Len(split_docs)>>,
                      <<"file_name", basename(file_path)>> }
    IN  IF split_docs[k].metadata # {}
        THEN update(metadata, split_docs[k].metadata)
        ELSE metadata

\* f"{os.path.basename(file_path)}_{i}_{text_hash[:8]}"
doc_id(file_path, split_docs, k) ==
    << basename(file_path), "_", ToString(k - 1), "_", md5_8(split_docs[k].page_content) >>

\* the dict process_file returns for the chunks split_docs of the file and the
\* value embeddings that embed_documents returned
process_file(file_path, split_docs, embeddings) ==
    [texts |-> [k \in DOMAIN split_docs |-> split_docs[k].page_content],
     embeddings |-> embeddings,
     metadatas |-> [k \in DOMAIN split_docs |-> ChunkMetadata(file_path, split_docs, k)],
     ids |-> [k \in DOMAIN split_docs |-> doc_id(file_path, split_docs, k)]]

(***************************************************************************)
(* The inputs of a run.                                                    *)
(***************************************************************************)
\* chunks of one processed file
MaxChunks == 2

\* The words of a content: Vaccine .. wiheom 위험 is the fifth dangerous
\* pattern, eunggeupsil 응급실 .. gajima 가지마 the seventh (eunggeupsil holds
\* the emergency keyword eunggeup 응급), gohyeorap 고혈압 .. najeun 낮은 the first
\* misinformation pattern and the first conflict.
InputWords == {"Vaccine", "wiheom", "eunggeupsil", "gajima", "gohyeorap", "najeun", NEWLINE}

\* "고혈압은 혈압이 너무 낮을 때 발생하는 질병입니다." (dangerous_content_test.py)
ConflictTestContent ==
    << "gohyeorabeun", "hyeorabi", "neomu", "najeul", "ttae", "balsaenghaneun",
       "jilbyeongimnida." >>

\* contents for the second and the third predicate of the detector, and one
\* for the first and the third: 당뇨병 완치 가능, 감기 항생제 효과,
\* 고혈압 낮은 감기 항생제 치료; one for the three of them
ConflictContents ==
    { << "dangnyobyeong", "wanchi", "ganeung" >>,
      << "gamgi", "hangsaengje", "hyogwa" >>,
      << "gohyeorap", "najeun", "gamgi", "hangsaengje", "chiryo" >>,
      << "gohyeorap", "najeun", "dangnyobyeong", "wanchi", "ganeung",
         "gamgi", "hangsaengje", "hyogwa" >> }

\* texts in which several rules match: a dangerous and a misinformation rule
\* (vaccine 위험 고혈압 낮은), with an emergency keyword too (응급실 가지마
\* 고혈압 낮은); two dangerous rules (vaccine 위험 응급실 가지마);
\* two emergency keywords (골절 화상), alone and after a misinformation match;
\* one and two misinformation rules (감기 항생제 필요; 고혈압 낮은 감기 항생제
\* 필요)
CategoryContents ==
    { <<"Vaccine", "wiheom", "gohyeorap", "najeun">>,
      <<"eunggeupsil", "gajima", "gohyeorap", "najeun">>,
      <<"Vaccine", "wiheom", "eunggeupsil", "gajima">>,
      <<"goljeol", "hwasang">>,
      <<"gohyeorap", "najeun", "goljeol", "hwasang">>,
      <<"gamgi", "hangsaengje", "piryo">>,
      <<"gohyeorap", "najeun", "gamgi", "hangsaengje", "piryo">> }

Contents ==
    SeqsUpTo(InputWords, MaxLen) \cup {ConflictTestContent} \cup ConflictContents
        \cup CategoryContents

\* the documents whose validation and conflicts are given to
\* create_safety_enhanced_prompt: safe, dangerous, misinformation with a
\* conflict, an emergency keyword
PromptContents ==
    { <<"gohyeorap">>, <<"Vaccine", "wiheom">>, <<"gohyeorap", "najeun">>, <<"eunggeupsil">> }

PromptMetadatas == { {}, {<<"source", "gaeinbeullogeu">>} }

\* the texts given as bytes objects: b"Vaccine wiheom", b"gohyeorap"
BytesContents == { <<"Vaccine", "wiheom">>, <<"gohyeorap">> }

\* no metadata; the sources of test_reliability_assessment (질병관리청,
\* 개인블로그, 뉴스); the source of the question path; two paths with their
\* file names; a media source with a trusted file name; a personal file name
\* with a source that holds no keyword
Metadatas ==
    { {},
      {<<"source", "jilbyeonggwallicheong">>},
      {<<"source", "gaeinbeullogeu">>},
      {<<"source", "nyuseu">>},
      {<<"source", "rag_search_results">>},
      {<<"source", "/blog/WHO_guide.txt">>, <<"file_name", "WHO_guide.txt">>},
      {<<"source", "/data/news_cafe.txt">>, <<"file_name", "news_cafe.txt">>},
      {<<"source", "nyuseu">>, <<"file_name", "WHO_guide.txt">>},
      {<<"source", "upload">>, <<"file_name", "my_blog.txt">>} }

Paths == {"/data/safe_medical.txt", "/data/blog_medical.txt", "/blog/WHO_guide.txt"}

Missing == [exists |-> FALSE, readable |-> FALSE, content |-> <<>>]
Unreadable == [exists |-> TRUE, readable |-> FALSE, content |-> <<>>]
Readable(text) == [exists |-> TRUE, readable |-> TRUE, content |-> text]

FileContents ==
    { <<"gohyeorap">>, <<"Vaccine", "wiheom">>, <<"gohyeorap", "najeun">> }

FileStates == {Missing, Unreadable} \cup {Readable(text) : text \in FileContents}

\* jungdok 중독 is an emergency keyword of the validator only
Questions ==
    { <<"gohyeorap">>, <<"jungdok">>, <<"eunggeupsil">>,
      <<"gohyeorap", "simhangaseumtongjeung">> }

RetrievedContents ==
    { <<"Vaccine", "wiheom">>, <<"Vaccine">>, <<"wiheom">>,
      <<"gohyeorap", "najeun">>, <<"gohyeorap">>, <<"eunggeupsil">> }

RetrievedMetadatas ==
    { {<<"file_name", "safe_medical.txt">>},
      {<<"file_name", "blog_medical.txt">>},
      {} }

SearchResults ==
    SeqsUpTo([content : RetrievedContents, metadata : RetrievedMetadatas], MaxDocs)

Errors == {"connection refused", "rate limit exceeded"}

\* the chunks that the loader and the splitter give for a file: the text of
\* each and the metadata that TextLoader sets (its path), or none
ChunkContents == { <<"gohyeorap">>, <<"Vaccine", "wiheom">> }

SplitDocs(file_path) ==
    SeqsUpTo([page_content : ChunkContents,
              metadata : { {}, {<<"source", file_path>>} }], MaxChunks)

\* what embed_documents returns: vectors, whose number process_file does not
\* compare with the number of texts
Vectors == { <<1, 2, 3>>, <<4, 5, 6>> }

EmbeddingLists == SeqsUpTo(Vectors, MaxChunks)

Generated == {"generated answer A", "generated answer B"}

(***************************************************************************)
(* The state: one call of one operation of a chatbot, from its arguments   *)
(* (op and the argument variables) to the value it returns (result).       *)
(***************************************************************************)
VARIABLES
    op,                 \* the operation called
    pc,                 \* where the call is: "call", a step of ask_medical_question, "return"
    content,            \* validate_content, detect_conflicts: content
    content_type,       \* the type of the object given as content: "str" or "bytes"
    metadata,           \* validate_content: metadata
    file_paths,         \* load_medical_documents: file_paths
    files,              \* the file behind each path
    question,           \* ask_medical_question: question
    search_results,     \* ask_medical_question: search_results
    content_validation, \* ask_medical_question: content_validation
    conflict_info,      \* ask_medical_question: conflict_info
    enhanced_prompt,    \* ask_medical_question: enhanced_prompt
    context,            \* ask_medical_question: context
    invoked,            \* the collaborators the call has invoked, in order
    added,              \* the lists handed to rag_pipeline.add_documents, in order
    raised,             \* the exceptions the collaborators have raised, in order
    result              \* the value returned, None before the return

\* Several callers of one validator and one detector (the second
\* specification, SpecCalls).
VARIABLES
    calls,              \* the call of each caller: its arguments, its locals, where it is
    first,              \* the first call that returned: its arguments and its result
    separated,          \* a call with other arguments returned after the first one
    ncalls              \* the number of calls made

one_call == <<op, pc, content, content_type, metadata, file_paths, files, question, search_results,
              content_validation, conflict_info, enhanced_prompt, context, invoked, added,
              raised, result>>

callers == <<calls, first, separated, ncalls>>

vars == <<tables, one_call, callers>>

args == <<op, content, content_type, metadata, file_paths, files, question>>

NoFiles == [p \in Paths |-> Missing]

\* MedicalContentValidator.__init__ and ConflictDetector.__init__
LoadedTables ==
    [dangerous_patterns |-> _load_dangerous_patterns,
     medical_misinformation |-> _load_misinformation_patterns,
     emergency_keywords |-> _load_emergency_keywords,
     trusted_sources |-> _load_trusted_sources,
     known_medical_facts |-> _load_medical_facts]

Callers == {"caller 1", "caller 2"}

Idle ==
    [op |-> "none", pc |-> "idle", content |-> <<>>, metadata |-> {},
     locals |-> None, result |-> None]

Init ==
    /\ tables = LoadedTables
    /\ calls = [c \in Callers |-> Idle]
    /\ first = None
    /\ separated = FALSE
    /\ ncalls = 0
    /\ pc = "call"
    /\ search_results = <<>>
    /\ enhanced_prompt = None
    /\ context = None
    /\ invoked = <<>>
    /\ added = <<>>
    /\ raised = <<>>
    /\ result = None
    /\ \/ /\ op = "validate_content"
          /\ content_validation = None /\ conflict_info = None
          /\ \/ content \in Contents /\ content_type = "str"
             \/ content \in BytesContents /\ content_type = "bytes"
          /\ metadata \in Metadatas
          /\ file_paths = <<>> /\ files = NoFiles /\ question = <<>>
       \/ /\ op = "detect_conflicts"
          /\ content_validation = None /\ conflict_info = None
          /\ content \in Contents /\ content_type = "str"
          /\ metadata = {}
          /\ file_paths = <<>> /\ files = NoFiles /\ question = <<>>
       \/ /\ op = "load_medical_documents"
          /\ content_validation = None /\ conflict_info = None
          /\ file_paths \in SeqsUpTo(Paths, MaxBatch)
          /\ files \in [Paths -> FileStates]
          /\ \A p \in Paths \ Range(file_paths) : files[p] = Missing
          /\ content = <<>> /\ content_type = "str" /\ metadata = {} /\ question = <<>>
       \/ /\ op = "ask_medical_question"
          /\ content_validation = None /\ conflict_info = None
          /\ question \in Questions
          /\ content = <<>> /\ content_type = "str" /\ metadata = {}
          /\ file_paths = <<>> /\ files = NoFiles
       \/ /\ op = "process_file"
          /\ content_validation = None /\ conflict_info = None
          /\ \E path \in Paths :
                /\ file_paths = <<path>>
                /\ files \in [Paths -> {Missing, Unreadable, Readable(<<"gohyeorap">>)}]
                /\ \A q \in Paths \ {path} : files[q] = Missing
          /\ content = <<>> /\ content_type = "str" /\ metadata = {} /\ question = <<>>
       \/ /\ op = "create_safety_enhanced_prompt"
          /\ content_validation \in
                {validate_content(text, meta) : text \in PromptContents, meta \in PromptMetadatas}
          /\ conflict_info \in {None} \cup {detect_conflicts(text) : text \in PromptContents}
          /\ content = <<>> /\ content_type = "str" /\ metadata = {} /\ question = <<>>
          /\ file_paths = <<>> /\ files = NoFiles

(***************************************************************************)
(* validate_content, detect_conflicts and load_medical_documents return in *)
(* one step.                                                               *)
(***************************************************************************)
ValidateContent ==
    /\ op = "validate_content" /\ pc = "call"
    /\ content_type = "str"
    /\ result' = validate_content(content, metadata)
    /\ pc' = "return"
    /\ UNCHANGED <<tables, callers, args, context, enhanced_prompt, search_results, content_validation, conflict_info, invoked, added, raised>>

\* The content is a bytes object: content.lower() is bytes, and in
\* _check_dangerous_patterns re.search with the str pattern of the first rule
\* raises TypeError.  No except clause is around the rule, the loop or the
\* call, so the exception leaves validate_content.
ValidateContentRaises ==
    /\ op = "validate_content" /\ pc = "call"
    /\ content_type = "bytes"
    /\ dangerous_patterns # <<>>
    /\ raised' = Append(raised, "TypeError: cannot use a string pattern on a bytes-like object")
    /\ pc' = "raise"
    /\ UNCHANGED <<tables, callers, args, context, enhanced_prompt, search_results, content_validation, conflict_info, invoked, added, result>>

DetectConflicts ==
    /\ op = "detect_conflicts" /\ pc = "call"
    /\ result' = detect_conflicts(content)
    /\ pc' = "return"
    /\ UNCHANGED <<tables, callers, args, context, enhanced_prompt, search_results, content_validation, conflict_info, invoked, added, raised>>

LoadMedicalDocuments ==
    /\ op = "load_medical_documents" /\ pc = "call"
    /\ LET safe_files == ValidateFilesFrom(file_paths, files, 1,
                             [validation_results |-> <<>>, safe_files |-> <<>>]).safe_files
       IN  \E chunks \in [1..Len(safe_files) -> 0..MaxChunks] :
               LET loaded == load_medical_documents(file_paths, files, chunks)
               IN  /\ result' = loaded.result
                   /\ added' = loaded.added
    /\ pc' = "return"
    /\ UNCHANGED <<tables, callers, args, context, enhanced_prompt, search_results, content_validation, conflict_info, invoked, raised>>

\* create_safety_enhanced_prompt called with a validation result and a
\* conflict_info (None by default)
CreateSafetyEnhancedPrompt ==
    /\ op = "create_safety_enhanced_prompt" /\ pc = "call"
    /\ result' = create_safety_enhanced_prompt(content_validation, conflict_info)
    /\ pc' = "return"
    /\ UNCHANGED <<tables, callers, args, context, enhanced_prompt, search_results, content_validation, conflict_info, invoked, added, raised>>

\* process_file: the loader and the splitter give the chunks, embed_documents
\* gives the embeddings
ProcessFile ==
    /\ op = "process_file" /\ pc = "call"
    /\ files[file_paths[1]].exists /\ files[file_paths[1]].readable
    /\ invoked' = <<"load_document", "split_documents", "generate_embeddings">>
    /\ \E split_docs \in SplitDocs(file_paths[1]), embeddings \in EmbeddingLists :
          result' = process_file(file_paths[1], split_docs, embeddings)
    /\ pc' = "return"
    /\ UNCHANGED <<tables, callers, args, context, enhanced_prompt, search_results, content_validation, conflict_info, added, raised>>

\* process_file: the loader raises on a file that is missing or cannot be
\* read, or embed_documents raises; the except clause logs and raises again
ProcessFileRaises ==
    /\ op = "process_file" /\ pc = "call"
    /\ IF files[file_paths[1]].exists /\ files[file_paths[1]].readable
       THEN /\ invoked' = <<"load_document", "split_documents", "generate_embeddings">>
            /\ \E e \in Errors : raised' = Append(raised, e)
       ELSE /\ invoked' = <<"load_document">>
            /\ raised' = Append(raised, "Error loading file")
    /\ pc' = "raise"
    /\ UNCHANGED <<tables, callers, args, context, enhanced_prompt, search_results, content_validation, conflict_info, added, result>>

(***************************************************************************)
(* ask_medical_question, step by step.                                     *)
(***************************************************************************)
\* 1. the emergency keyword check
AskEmergencyCheck ==
    /\ op = "ask_medical_question" /\ pc = "call"
    /\ IF \E i \in DOMAIN question_emergency_keywords :
              Contains(question, question_emergency_keywords[i])
       THEN /\ result' = EmergencyResponse(question)
            /\ pc' = "return"
       ELSE /\ pc' = "retrieve"
            /\ UNCHANGED result
    /\ UNCHANGED <<tables, callers, args, context, enhanced_prompt, search_results, content_validation, conflict_info, invoked, added, raised>>

\* step 2 outside the try: the exception leaves ask_medical_question
SearchFails_propagates ==
    /\ pc = "retrieve"
    /\ invoked' = Append(invoked, "search_documents")
    /\ \E e \in Errors : raised' = Append(raised, e)
    /\ pc' = "raise"
    /\ UNCHANGED <<tables, callers, args, context, enhanced_prompt, search_results, content_validation, conflict_info, added, result>>

\* 2. rag_pipeline.search_documents raises: the except clause
SearchFails ==
    /\ pc = "retrieve"
    /\ invoked' = Append(invoked, "search_documents")
    /\ \E e \in Errors :
          /\ raised' = Append(raised, e)
          /\ result' = ErrorResponse(question, e)
    /\ pc' = "return"
    /\ UNCHANGED <<tables, callers, args, context, enhanced_prompt, search_results, content_validation, conflict_info, added>>

\* step 2 without the test  if not search_results
SearchReturns_no_empty_check ==
    /\ pc = "retrieve"
    /\ invoked' = Append(invoked, "search_documents")
    /\ \E results \in SearchResults : search_results' = results
    /\ pc' = "validate"
    /\ UNCHANGED <<tables, callers, args, context, enhanced_prompt, content_validation, conflict_info, added, raised, result>>

\* 2. rag_pipeline.search_documents returns
SearchReturns ==
    /\ pc = "retrieve"
    /\ invoked' = Append(invoked, "search_documents")
    /\ \E results \in SearchResults :
          /\ search_results' = results
          /\ IF results = <<>>
             THEN /\ result' = NoResultResponse(question)
                  /\ pc' = "return"
             ELSE /\ pc' = "validate"
                  /\ UNCHANGED result
    /\ UNCHANGED <<tables, callers, args, context, enhanced_prompt, content_validation, conflict_info, added, raised>>

\* step 3 with the metadata of the first result given to the validator
Validate_with_result_metadata ==
    /\ pc = "validate"
    /\ invoked' = Append(invoked, "validate_content")
    /\ content_validation' =
          validate_content(CombinedContent(search_results), search_results[1].metadata)
    /\ pc' = "detect"
    /\ UNCHANGED <<tables, callers, args, context, enhanced_prompt, search_results, conflict_info, added, result, raised>>

\* 3. validation of the retrieved content
Validate ==
    /\ pc = "validate"
    /\ invoked' = Append(invoked, "validate_content")
    /\ content_validation' =
          validate_content(CombinedContent(search_results),
                           {<<"source", "rag_search_results">>})
    /\ pc' = "detect"
    /\ UNCHANGED <<tables, callers, args, context, enhanced_prompt, search_results, conflict_info, added, result, raised>>

\* 4. conflict detection
DetectConflict ==
    /\ pc = "detect"
    /\ invoked' = Append(invoked, "detect_conflicts")
    /\ conflict_info' = detect_conflicts(CombinedContent(search_results))
    /\ pc' = "gate"
    /\ UNCHANGED <<tables, callers, args, context, enhanced_prompt, search_results, content_validation, added, result, raised>>

\* step 5 left out
SafetyGate_never_blocks ==
    /\ pc = "gate"
    /\ pc' = "compose"
    /\ UNCHANGED <<tables, callers, args, context, enhanced_prompt, search_results, content_validation, conflict_info, invoked, added,
                   raised, result>>

\* 5. the safe response for dangerous content
SafetyGate ==
    /\ pc = "gate"
    /\ IF content_validation.risk_level = "DANGEROUS"
       THEN /\ result' = BlockedResponse(question, content_validation)
            /\ pc' = "return"
       ELSE /\ pc' = "compose"
            /\ UNCHANGED result
    /\ UNCHANGED <<tables, callers, args, context, enhanced_prompt, search_results, content_validation, conflict_info, invoked, added, raised>>

\* 6. the prompt
ComposePrompt ==
    /\ pc = "compose"
    /\ enhanced_prompt' = create_safety_enhanced_prompt(content_validation, conflict_info)
    /\ pc' = "context"
    /\ UNCHANGED <<tables, callers, args, context, search_results, content_validation, conflict_info, invoked, added, raised, result>>

\* 7. the context, with the reliability of the validation
BuildContext ==
    /\ pc = "context"
    /\ context' = join("\n\n",
                       [i \in DOMAIN search_results |->
                           ContextPart(search_results[i], content_validation)])
    /\ pc' = "generate"
    /\ UNCHANGED <<tables, callers, args, enhanced_prompt, search_results, content_validation, conflict_info, invoked, added,
                   raised, result>>

\* 8. chain.invoke raises: the except clause
GenerateFails ==
    /\ pc = "generate"
    /\ invoked' = Append(invoked, "chain.invoke")
    /\ \E e \in Errors :
          /\ raised' = Append(raised, e)
          /\ result' = ErrorResponse(question, e)
    /\ pc' = "return"
    /\ UNCHANGED <<tables, callers, args, context, enhanced_prompt, search_results, content_validation, conflict_info, added>>

\* 8. chain.invoke returns; 9. and 10. the response
GenerateReturns ==
    /\ pc = "generate"
    /\ invoked' = Append(invoked, "chain.invoke")
    /\ \E response \in Generated, sources \in ListOfSet(FileNames(search_results)) :
          result' = ValidatedResponse(question, search_results, content_validation,
                                      conflict_info, response, sources)
    /\ pc' = "return"
    /\ UNCHANGED <<tables, callers, args, context, enhanced_prompt, search_results, content_validation, conflict_info, added, raised>>

Next ==
    \/ ValidateContent
    \/ ValidateContentRaises
    \/ DetectConflicts
    \/ LoadMedicalDocuments
    \/ CreateSafetyEnhancedPrompt
    \/ ProcessFile
    \/ ProcessFileRaises
    \/ AskEmergencyCheck
    \/ SearchFails
    \/ SearchReturns
    \/ Validate
    \/ DetectConflict
    \/ SafetyGate
    \/ ComposePrompt
    \/ BuildContext
    \/ GenerateFails
    \/ GenerateReturns

Spec == Init /\ [][Next]_vars

(***************************************************************************)
(* Several callers of the validator and the detector of one chatbot.  A    *)
(* call of validate_content or detect_conflicts is a sequence of steps on  *)
(* the locals of the call (warnings, recommendations, risk_level,          *)
(* reliability, confidence_score; conflicts, suggestions) that reads the   *)
(* tables through self; the steps of the callers interleave.               *)
(***************************************************************************)
\* the calls made on one chatbot
MaxCalls == 3

CallContents ==
    { <<"gohyeorap", "najeun">>, <<"Vaccine", "wiheom">>, <<"eunggeupsil">>,
      <<"Vaccine", "wiheom", "gohyeorap", "najeun">> }

CallMetadatas == { {}, {<<"source", "gaeinbeullogeu">>} }

InitCalls ==
    /\ tables = LoadedTables
    /\ calls = [c \in Callers |-> Idle]
    /\ first = None
    /\ separated = FALSE
    /\ ncalls = 0
    /\ op = "none" /\ pc = "none"
    /\ content = <<>> /\ content_type = "str" /\ metadata = {}
    /\ file_paths = <<>> /\ files = NoFiles
    /\ question = <<>> /\ search_results = <<>>
    /\ content_validation = None /\ conflict_info = None /\ enhanced_prompt = None
    /\ context = None
    /\ invoked = <<>> /\ added = <<>> /\ raised = <<>> /\ result = None

\* a caller calls validate_content: the locals of the call
CallValidateContent(c) ==
    /\ calls[c].pc = "idle"
    /\ ncalls < MaxCalls
    /\ \E text \in CallContents, meta \in CallMetadatas :
          calls' = [calls EXCEPT ![c] =
                       [op |-> "validate_content", pc |-> "dangerous",
                        content |-> text, metadata |-> meta,
                        locals |-> ValidateStart, result |-> None]]
    /\ ncalls' = ncalls + 1
    /\ UNCHANGED <<tables, one_call, first, separated>>

\* 1. dangerous patterns
StepDangerous(c) ==
    /\ calls[c].pc = "dangerous"
    /\ calls' = [calls EXCEPT
                    ![c].locals = ValidateDangerous(@, calls[c].content),
                    ![c].pc = "misinformation"]
    /\ UNCHANGED <<tables, one_call, first, separated, ncalls>>

\* step 2 on lists that the calls share: the warnings of the call are added to
\* the lists of every call in progress
StepMisinformation_shared(c) ==
    /\ calls[c].pc = "misinformation"
    /\ LET done == ValidateMisinformation(calls[c].locals, calls[c].content)
           new == SubSeq(done.warnings, Len(calls[c].locals.warnings) + 1,
                         Len(done.warnings))
       IN  calls' = [d \in Callers |->
                        IF d = c
                        THEN [calls[c] EXCEPT !.locals = done, !.pc = "reliability"]
                        ELSE IF calls[d].op = "validate_content" /\ calls[d].pc # "idle"
                        THEN [calls[d] EXCEPT !.locals.warnings = @ \o new]
                        ELSE calls[d]]
    /\ UNCHANGED <<tables, one_call, first, separated, ncalls>>

\* 2. misinformation patterns
StepMisinformation(c) ==
    /\ calls[c].pc = "misinformation"
    /\ calls' = [calls EXCEPT
                    ![c].locals = ValidateMisinformation(@, calls[c].content),
                    ![c].pc = "reliability"]
    /\ UNCHANGED <<tables, one_call, first, separated, ncalls>>

\* 3. source reliability
StepReliability(c) ==
    /\ calls[c].pc = "reliability"
    /\ calls' = [calls EXCEPT
                    ![c].locals = ValidateReliability(@, calls[c].metadata),
                    ![c].pc = "emergency"]
    /\ UNCHANGED <<tables, one_call, first, separated, ncalls>>

\* 4. emergency keywords
StepEmergency(c) ==
    /\ calls[c].pc = "emergency"
    /\ calls' = [calls EXCEPT
                    ![c].locals = ValidateEmergency(@, calls[c].content),
                    ![c].pc = "result"]
    /\ UNCHANGED <<tables, one_call, first, separated, ncalls>>

\* step 5 with a confidence that sinks with every call made on the validator
StepResult_counts_calls(c) ==
    /\ calls[c].pc = "result"
    /\ calls' = [calls EXCEPT
                    ![c].result =
                        [ValidationResult(calls[c].locals) EXCEPT
                            !.confidence_score = Max(1, @ - (ncalls - 1))],
                    ![c].pc = "return"]
    /\ UNCHANGED <<tables, one_call, first, separated, ncalls>>

\* 5. the ValidationResult
StepResult(c) ==
    /\ calls[c].pc = "result"
    /\ calls' = [calls EXCEPT
                    ![c].result = ValidationResult(calls[c].locals),
                    ![c].pc = "return"]
    /\ UNCHANGED <<tables, one_call, first, separated, ncalls>>

\* a caller calls detect_conflicts: the locals of the call
CallDetectConflicts(c) ==
    /\ calls[c].pc = "idle"
    /\ ncalls < MaxCalls
    /\ \E text \in CallContents :
          calls' = [calls EXCEPT ![c] =
                       [op |-> "detect_conflicts", pc |-> "fact",
                        content |-> text, metadata |-> {},
                        locals |-> [conflicts |-> <<>>, suggestions |-> <<>>, i |-> 1],
                        result |-> None]]
    /\ ncalls' = ncalls + 1
    /\ UNCHANGED <<tables, one_call, first, separated>>

\* an iteration of the loop over the fact table
StepFact(c) ==
    /\ calls[c].pc = "fact"
    /\ calls[c].locals.i <= Len(known_medical_facts)
    /\ LET found == DetectIteration(LowerText(calls[c].content), calls[c].locals.i,
                                    calls[c].locals)
       IN  calls' = [calls EXCEPT
                        ![c].locals = [conflicts |-> found.conflicts,
                                       suggestions |-> found.suggestions,
                                       i |-> calls[c].locals.i + 1]]
    /\ UNCHANGED <<tables, one_call, first, separated, ncalls>>

\* the end of the loop: the dict that detect_conflicts returns
StepDetectResult(c) ==
    /\ calls[c].pc = "fact"
    /\ calls[c].locals.i > Len(known_medical_facts)
    /\ calls' = [calls EXCEPT
                    ![c].result =
                        [has_conflicts |-> Len(calls[c].locals.conflicts) > 0,
                         conflicts |-> calls[c].locals.conflicts,
                         suggestions |-> calls[c].locals.suggestions,
                         confidence |-> IF calls[c].locals.conflicts # <<>> THEN 9 ELSE 1],
                    ![c].pc = "return"]
    /\ UNCHANGED <<tables, one_call, first, separated, ncalls>>

SameArguments(a, b) ==
    a.op = b.op /\ a.content = b.content /\ a.metadata = b.metadata

\* the caller has the value of its call
Return(c) ==
    /\ calls[c].pc = "return"
    /\ calls' = [calls EXCEPT ![c] = Idle]
    /\ IF first = None
       THEN /\ first' = [op |-> calls[c].op, content |-> calls[c].content,
                         metadata |-> calls[c].metadata, result |-> calls[c].result]
            /\ UNCHANGED separated
       ELSE /\ separated' = (separated \/ ~SameArguments(calls[c], first))
            /\ UNCHANGED first
    /\ UNCHANGED <<tables, one_call, ncalls>>

NextCalls ==
    \E c \in Callers :
        \/ CallValidateContent(c)
        \/ StepDangerous(c)
        \/ StepMisinformation(c)
        \/ StepReliability(c)
        \/ StepEmergency(c)
        \/ StepResult(c)
        \/ CallDetectConflicts(c)
        \/ StepFact(c)
        \/ StepDetectResult(c)
        \/ Return(c)

SpecCalls == InitCalls /\ [][NextCalls]_vars

(***************************************************************************)
(* Properties.                                                             *)
(***************************************************************************)
Validating == op = "validate_content"
Detecting == op = "detect_conflicts"
Loading == op = "load_medical_documents"
Asking == op = "ask_medical_question"
Returned == pc = "return"

\* the fixed text of the answer of a blocked call
BlockedFixedText ==
    { "dangerous content detected in the search results. problems: ", "; ",
      "not provided for safety, consult a doctor" }

\* C1: in a call of ask_medical_question whose search returned results and
\* whose validation of the combined content gave DANGEROUS, the chain is never
\* invoked, and the call returns type blocked_dangerous with an answer made of
\* fixed text and the validation warnings, all of them, and nothing else.
C1_SafetyGate ==
    (/\ Asking
     /\ search_results # <<>>
     /\ content_validation # None
     /\ content_validation.risk_level = "DANGEROUS")
    => /\ "chain.invoke" \notin Range(invoked)
       /\ pc \in {"detect", "gate", "return"}
       /\ Returned =>
            /\ result.type = "blocked_dangerous"
            /\ Range(result.answer) \subseteq
                  BlockedFixedText \cup Range(content_validation.warnings)
            /\ Range(content_validation.warnings) \subseteq Range(result.answer)

C1_Witness ==
    /\ Asking /\ Returned
    /\ search_results # <<>>
    /\ content_validation # None
    /\ content_validation.risk_level = "DANGEROUS"
    /\ result.type = "blocked_dangerous"

\* the emergency keywords of the question side: 응급, 위급, 심각, 의식잃음,
\* 호흡곤란, 가슴통증, 심장마비
HasEmergencyKeyword(q) ==
    \E i \in DOMAIN q :
        Substrings(q[i]) \cap {"eunggeup", "wigeup", "simgak", "uisigireum",
                               "hoheupgollan", "gaseumtongjeung", "simjangmabi"} # {}

\* C2: a call of ask_medical_question with a question that holds an emergency
\* keyword invokes no collaborator (no search, no validation, no conflict
\* detection, no chain) and returns type emergency.
C2_EmergencyShortCircuit ==
    (Asking /\ HasEmergencyKeyword(question))
    => /\ invoked = <<>>
       /\ search_results = <<>>
       /\ content_validation = None
       /\ conflict_info = None
       /\ pc \in {"call", "return"}
       /\ Returned => result.type = "emergency"

C2_Witness ==
    /\ Asking /\ Returned
    /\ question = <<"gohyeorap", "simhangaseumtongjeung">>
    /\ result.type = "emergency"
    /\ invoked = <<>>

\* C3: validate_content of a content that matches a dangerous rule returns
\* is_safe false and risk_level DANGEROUS, whatever the metadata and whatever
\* else matches.
C3_DangerousIsUnsafe ==
    (Validating /\ Returned /\ _check_dangerous_patterns(content) # <<>>)
    => /\ result.is_safe = FALSE
       /\ result.risk_level = "DANGEROUS"

\* a dangerous rule, a misinformation rule and an emergency keyword match, and
\* the source is a personal one
C3_Witness ==
    /\ Validating /\ Returned
    /\ _check_dangerous_patterns(content) # <<>>
    /\ _check_misinformation(content) # <<>>
    /\ _check_emergency_keywords(content) # <<>>
    /\ metadata = {<<"source", "gaeinbeullogeu">>}
    /\ result.risk_level = "DANGEROUS"

IsSafeIffNotDangerous(validation) ==
    validation.is_safe = (validation.risk_level # "DANGEROUS")

\* C4: every ValidationResult that validate_content returns, to its caller, to
\* ask_medical_question and to load_medical_documents, has
\* is_safe = (risk_level # DANGEROUS).
C4_IsSafeIffNotDangerous ==
    /\ (Validating /\ Returned) => IsSafeIffNotDangerous(result)
    /\ content_validation # None => IsSafeIffNotDangerous(content_validation)
    /\ (Loading /\ Returned) =>
          \A i \in DOMAIN result.validation_results :
              IsSafeIffNotDangerous(result.validation_results[i].validation)

C4_Witness ==
    /\ Validating /\ Returned
    /\ result.risk_level = "CAUTION"
    /\ result.is_safe = TRUE

\* the validation of the file behind a path, as load_medical_documents asks it
FileValidation(p) ==
    validate_content(files[p].content,
                     {<<"source", p>>, <<"file_name", basename(p)>>})

ReadableFile(p) == files[p].exists /\ files[p].readable

\* C5: load_medical_documents hands to add_documents, and reports in
\* safe_files, exactly the readable files of the batch whose validation is
\* safe; a file whose validation is unsafe is in blocked_files, is in no list
\* handed to add_documents, and has an entry with is_safe false in
\* validation_results.  With a safe file and a file with a dangerous pattern,
\* safe_files is the first and blocked_files the second.
C5_DocumentAdmission ==
    (Loading /\ Returned)
    => LET safe == {p \in Range(file_paths) : ReadableFile(p) /\ FileValidation(p).is_safe}
           unsafe == {p \in Range(file_paths) :
                         ReadableFile(p) /\ ~FileValidation(p).is_safe}
           handed == UNION {Range(added[i]) : i \in DOMAIN added}
       IN  /\ Range(result.safe_files) = safe
           /\ handed = safe
           /\ \A p \in unsafe :
                 /\ p \in Range(result.blocked_files)
                 /\ p \notin handed
                 /\ \E i \in DOMAIN result.validation_results :
                       /\ result.validation_results[i].file = p
                       /\ result.validation_results[i].validation.is_safe = FALSE
           /\ \A i \in DOMAIN result.validation_results :
                 ~result.validation_results[i].validation.is_safe
                 => result.validation_results[i].file \notin handed
           /\ (/\ file_paths = <<"/data/safe_medical.txt", "/blog/WHO_guide.txt">>
               /\ files["/data/safe_medical.txt"] = Readable(<<"gohyeorap">>)
               /\ files["/blog/WHO_guide.txt"] = Readable(<<"Vaccine", "wiheom">>))
              => /\ result.safe_files = <<"/data/safe_medical.txt">>
                 /\ result.blocked_files = <<"/blog/WHO_guide.txt">>

C5_Witness ==
    /\ Loading /\ Returned
    /\ file_paths = <<"/data/safe_medical.txt", "/blog/WHO_guide.txt">>
    /\ files["/data/safe_medical.txt"] = Readable(<<"gohyeorap">>)
    /\ files["/blog/WHO_guide.txt"] = Readable(<<"Vaccine", "wiheom">>)
    /\ added = << <<"/data/safe_medical.txt">> >>
    /\ result.blocked_files = <<"/blog/WHO_guide.txt">>

\* the three deductions of validate_content all apply
AllDeductions(text, meta) ==
    /\ _check_dangerous_patterns(text) # <<>>
    /\ _check_misinformation(text) # <<>>
    /\ meta # {}
    /\ _assess_source_reliability(meta) = "LOW"

\* C6: the confidence score of a ValidationResult is between 0.1 and 0.8, and
\* is 0.1 when a dangerous rule matches, a misinformation rule matches and the
\* source reliability is LOW.
C6_ConfidenceRange ==
    /\ (Validating /\ Returned) =>
          /\ result.confidence_score >= 1
          /\ result.confidence_score <= 8
          /\ AllDeductions(content, metadata) => result.confidence_score = 1
    /\ content_validation # None =>
          /\ content_validation.confidence_score >= 1
          /\ content_validation.confidence_score <= 8

C6_Witness ==
    /\ Validating /\ Returned
    /\ AllDeductions(content, metadata)
    /\ result.confidence_score = 1

\* no trusted, personal or media keyword in the source or the file name
NoSourceKeyword(meta) ==
    (Substrings(Lower(get(meta, "source", "")))
        \cup Substrings(Lower(get(meta, "file_name", ""))))
    \cap ({Lower(trusted_sources[i]) : i \in DOMAIN trusted_sources}
          \cup Range(personal_sources) \cup Range(media_sources)) = {}

\* C7: validate_content gives reliability HIGH for the source 질병관리청, LOW for
\* 개인블로그, MEDIUM for 뉴스, and UNKNOWN for metadata whose source and file
\* name hold no trusted, personal or media keyword.
C7_ReliabilityMapping ==
    (Validating /\ Returned)
    => /\ metadata = {<<"source", "jilbyeonggwallicheong">>} => result.reliability = "HIGH"
       /\ metadata = {<<"source", "gaeinbeullogeu">>} => result.reliability = "LOW"
       /\ metadata = {<<"source", "nyuseu">>} => result.reliability = "MEDIUM"
       /\ (metadata # {} /\ NoSourceKeyword(metadata)) => result.reliability = "UNKNOWN"

C7_Witness ==
    /\ Validating /\ Returned
    /\ metadata = {<<"source", "gaeinbeullogeu">>}
    /\ result.reliability = "LOW"

\* C8: detect_conflicts on "고혈압은 혈압이 너무 낮을 때 발생하는 질병입니다."
\* returns has_conflicts true and one conflict, a definition conflict whose
\* standard is the hypertension definition of the fact table.
C8_ConflictOnTestContent ==
    (Detecting /\ Returned /\ content = ConflictTestContent)
    => /\ result.has_conflicts = TRUE
       /\ Len(result.conflicts) = 1
       /\ result.conflicts[1].type = "definition conflict"
       /\ result.conflicts[1].standard = known_medical_facts[1].value

RiskSafetyLevel(risk_level) ==
    CASE risk_level = "SAFE" -> "safe"
      [] risk_level = "CAUTION" -> "caution"
      [] risk_level = "DANGEROUS" -> "dangerous"

\* C9 as claimed: the safety_level of a result of ask_medical_question is
\* critical on the emergency path, error on the failure path, otherwise safe,
\* caution or dangerous by the risk level of the validation, and nothing else.
C9_SafetyLevelAsClaimed ==
    (Asking /\ Returned)
    => /\ result.safety_level \in {"critical", "error", "safe", "caution", "dangerous"}
       /\ result.type = "emergency" => result.safety_level = "critical"
       /\ result.type = "error" => result.safety_level = "error"
       /\ (result.type \notin {"emergency", "error"} /\ content_validation # None)
          => result.safety_level = RiskSafetyLevel(content_validation.risk_level)

\* C9: the safety_level of a result of ask_medical_question is critical on the
\* emergency path, error on the failure path, safe when the search returned
\* nothing, blocked when the validation gave DANGEROUS, and safe or caution by
\* the risk level SAFE or CAUTION of the validation in a generated answer; no
\* result has the level dangerous or any other.
C9_SafetyLevel ==
    (Asking /\ Returned)
    => /\ result.safety_level \in {"critical", "error", "safe", "caution", "blocked"}
       /\ result.type = "emergency" <=> result.safety_level = "critical"
       /\ result.type = "error" <=> result.safety_level = "error"
       /\ result.type = "blocked_dangerous" <=> result.safety_level = "blocked"
       /\ result.type = "no_result" => result.safety_level = "safe"
       /\ result.type = "blocked_dangerous" => content_validation.risk_level = "DANGEROUS"
       /\ result.type = "medical_info_validated" =>
             /\ content_validation.risk_level \in {"SAFE", "CAUTION"}
             /\ result.safety_level = RiskSafetyLevel(content_validation.risk_level)

C9_Witness ==
    /\ Asking /\ Returned
    /\ result.type = "medical_info_validated"
    /\ content_validation.risk_level = "CAUTION"
    /\ result.safety_level = "caution"

\* C10: when search_documents or chain.invoke raises in ask_medical_question,
\* the call returns a result of type error and safety_level error whose answer
\* holds the message of the exception; no call of ask_medical_question ends by
\* raising.
C10_FailureIsReturned ==
    /\ Asking => pc # "raise"
    /\ (Asking /\ raised # <<>>) =>
          /\ Returned
          /\ result.type = "error"
          /\ result.safety_level = "error"
          /\ \A i \in DOMAIN raised : raised[i] \in Range(result.answer)

C10_Witness ==
    /\ Asking /\ Returned
    /\ raised = <<"rate limit exceeded">>
    /\ invoked = <<"search_documents", "validate_content", "detect_conflicts", "chain.invoke">>
    /\ result.type = "error"

\* C11: validate_content is deterministic and keeps nothing between calls: a
\* call that has its result, made with the content and the metadata of the
\* first call that returned, has the result of that first call in every field,
\* whatever calls were made in between and whatever calls are in progress.
C11_Deterministic ==
    \A c \in Callers :
        (/\ calls[c].pc = "return"
         /\ calls[c].op = "validate_content"
         /\ first # None
         /\ SameArguments(calls[c], first))
        => calls[c].result = first.result

\* a second call with the arguments of the first, after a call with other
\* arguments has returned, with warnings in its result
C11_Witness ==
    \E c \in Callers :
        /\ calls[c].pc = "return"
        /\ calls[c].op = "validate_content"
        /\ first # None
        /\ SameArguments(calls[c], first)
        /\ separated
        /\ calls[c].result.warnings # <<>>

\* the fact key whose predicate makes records of this type
ProducingKey(type) ==
    CASE type = "definition conflict" -> "gohyeorap_jeongui"
      [] type = "treatment information conflict" -> "dangnyobyeong_wanchi"
      [] type = "treatment conflict" -> "gamgi_hangsaengje"

FactText(fact_key) ==
    LET i == CHOOSE i \in DOMAIN _load_medical_facts : _load_medical_facts[i].key = fact_key
    IN  _load_medical_facts[i].value

\* what detect_conflicts has returned: the result of a call of it, or the
\* conflict_info of a call of ask_medical_question
Detected ==
    IF Detecting /\ Returned THEN {result}
    ELSE IF Asking /\ conflict_info # None THEN {conflict_info}
    ELSE {}

\* C12: the standard of every conflict record that detect_conflicts returns is
\* the text that the fact table holds under the key whose predicate made the
\* record.
C12_StandardIsFactText ==
    \A d \in Detected :
        \A i \in DOMAIN d.conflicts :
            d.conflicts[i].standard = FactText(ProducingKey(d.conflicts[i].type))

\* two records, of the first and of the third predicate
C12_Witness ==
    /\ Detecting /\ Returned
    /\ Len(result.conflicts) = 2
    /\ result.conflicts[1].type = "definition conflict"
    /\ result.conflicts[2].type = "treatment conflict"
    /\ result.conflicts[2].standard = "a cold is viral, antibiotics do not work"

\* C13: in every result of detect_conflicts has_conflicts is true exactly when
\* conflicts is not empty, confidence is 0.9 when has_conflicts and 0.1 when
\* not, and suggestions holds one suggestion for each conflict record, in the
\* order of the records.
C13_ConflictResultShape ==
    \A d \in Detected :
        /\ d.has_conflicts <=> d.conflicts # <<>>
        /\ d.confidence = IF d.has_conflicts THEN 9 ELSE 1
        /\ Len(d.suggestions) = Len(d.conflicts)
        /\ \A i \in DOMAIN d.conflicts :
              d.suggestions[i] = <<"generally known: ", d.conflicts[i].standard>>

\* a result with two conflicts and their two suggestions
C13_Witness ==
    /\ Detecting /\ Returned
    /\ result.has_conflicts
    /\ Len(result.conflicts) = 2
    /\ Len(result.suggestions) = 2
    /\ result.confidence = 9

\* the names in the order in which each first occurs
RECURSIVE FirstSeen(_)
FirstSeen(names) ==
    IF names = <<>> THEN <<>>
    ELSE LET front == FirstSeen(SubSeq(names, 1, Len(names) - 1))
             last == names[Len(names)]
         IN  IF last \in Range(front) THEN front ELSE Append(front, last)

\* C14: in every medical_info_validated result, sources holds each file name
\* of the retrieved results once, in the order in which the names first occur
\* in the search results.
C14_SourcesFirstSeen ==
    (Asking /\ Returned /\ result.type = "medical_info_validated")
    => result.sources = FirstSeen(FileNames(search_results))

\* C15: a call of validate_content in which the evaluation of a rule raises
\* still returns a complete ValidationResult: the failure is caught, the rule is
\* skipped and the other rules are evaluated.
C15_RuleFailureIsSkipped ==
    (Validating /\ pc # "call")
    => /\ Returned
       /\ result # None
       /\ result.risk_level \in RiskLevel
       /\ raised = <<>>

Composing == op = "create_safety_enhanced_prompt"

\* the prompts composed: the value of a call of create_safety_enhanced_prompt,
\* or the enhanced_prompt of a call of ask_medical_question
Composed ==
    IF Composing /\ Returned THEN {result}
    ELSE IF Asking /\ enhanced_prompt # None THEN {enhanced_prompt}
    ELSE {}

\* the place of a fragment in a prompt, 0 when it is not in it
Place(prompt, fragment) ==
    IF fragment \in Range(prompt)
    THEN CHOOSE i \in DOMAIN prompt : prompt[i] = fragment
    ELSE 0

\* the itemized warnings: "- " and the warning, one line each
Itemized(warnings) ==
    join(NEWLINE, [i \in DOMAIN warnings |-> <<"- ", warnings[i]>>])

\* C16: a composed prompt starts with the base directives and ends with the
\* closing block, which holds the {context} placeholder and the disclaimer
\* sentence; it holds the DANGEROUS block exactly when the risk is DANGEROUS,
\* the CAUTION block exactly when it is CAUTION, the conflict block exactly when
\* a conflict_info is given and has conflicts, and the header and the itemized
\* list of all warnings, in their order, exactly when there are warnings; the
\* blocks stand in this order.  Composing invokes no collaborator.
C16_PromptBlocks ==
    \A prompt \in Composed :
        LET risk == content_validation.risk_level
            warnings == content_validation.warnings
            n == Len(prompt)
            closing == n - Len(ClosingBlock) + 1
            risk_place == Place(prompt, DangerousBlock) + Place(prompt, CautionBlock)
            conflict_place == Place(prompt, ConflictBlock)
            warnings_place == Place(prompt, WarningsHeader)
        IN  /\ prompt[1] = BasePrompt
            /\ Place(prompt, BasePrompt) = 1
            /\ SubSeq(prompt, closing, n) = ClosingBlock
            /\ "{context}" \in Range(ClosingBlock)
            /\ DisclaimerSentence \in Range(ClosingBlock)
            /\ DangerousBlock \in Range(prompt) <=> risk = "DANGEROUS"
            /\ CautionBlock \in Range(prompt) <=> risk = "CAUTION"
            /\ ConflictBlock \in Range(prompt) <=>
                  (conflict_info # None /\ conflict_info.has_conflicts)
            /\ WarningsHeader \in Range(prompt) <=> warnings # <<>>
            /\ warnings # <<>> =>
                  SubSeq(prompt, warnings_place + 1, closing - 1) = Itemized(warnings)
            /\ risk_place > 0 => risk_place = 2
            /\ conflict_place > 0 => conflict_place = (IF risk_place > 0 THEN 3 ELSE 2)
            /\ warnings_place > 0 =>
                  warnings_place = 2 + (IF risk_place > 0 THEN 1 ELSE 0)
                                     + (IF conflict_place > 0 THEN 1 ELSE 0)
            /\ warnings_place = 0 =>
                  closing = 2 + (IF risk_place > 0 THEN 1 ELSE 0)
                              + (IF conflict_place > 0 THEN 1 ELSE 0)
            /\ Composing => invoked = <<>>
            /\ "chain.invoke" \in Range(invoked) => pc = "return"

\* a prompt with the DANGEROUS block, the conflict block and two warnings
C16_Witness ==
    /\ Composing /\ Returned
    /\ content_validation.risk_level = "DANGEROUS"
    /\ conflict_info # None /\ conflict_info.has_conflicts
    /\ Len(content_validation.warnings) >= 2
    /\ ConflictBlock \in Range(result)

\* C17: once the search of a call of ask_medical_question whose question holds
\* no emergency keyword has returned no result, the call has returned type
\* no_result, and the validator, the conflict detector, the prompt composer and
\* the chain are never invoked in it.
C17_NoResultShortCircuit ==
    (/\ Asking
     /\ ~HasEmergencyKeyword(question)
     /\ "search_documents" \in Range(invoked)
     /\ raised = <<>>
     /\ search_results = <<>>)
    => /\ Returned
       /\ result.type = "no_result"
       /\ result.sources = <<>>
       /\ invoked = <<"search_documents">>
       /\ content_validation = None
       /\ conflict_info = None
       /\ enhanced_prompt = None

C17_Witness ==
    /\ Asking /\ Returned
    /\ ~HasEmergencyKeyword(question)
    /\ invoked = <<"search_documents">>
    /\ raised = <<>>
    /\ search_results = <<>>
    /\ result.type = "no_result"

\* the lines of a text: the fragments between its line breaks
RECURSIVE LinesFrom(_, _, _)
LinesFrom(text, i, line) ==
    IF i > Len(text) THEN <<line>>
    ELSE IF text[i] = NEWLINE THEN <<line>> \o LinesFrom(text, i + 1, <<>>)
    ELSE LinesFrom(text, i + 1, Append(line, text[i]))

FooterDisclaimer == <<"consult a doctor for diagnosis and treatment">>
ConflictNotice == <<"* may differ from general medical knowledge">>

\* C18: the answer of every medical_info_validated result is the generated
\* answer, an empty line, and a footer whose first line is the fixed
\* disclaimer, followed by one itemized line for each validation warning and
\* one for each recommendation, in their order; the footer holds the conflict
\* notice exactly when conflict_info has conflicts, and holds no other line.
C18_AnswerFooter ==
    (Asking /\ Returned /\ result.type = "medical_info_validated")
    => LET answer == result.answer
           footer == LinesFrom(SubSeq(answer, 3, Len(answer)), 1, <<>>)
           warnings == content_validation.warnings
           recommendations == content_validation.recommendations
           notice == IF conflict_info.has_conflicts THEN 1 ELSE 0
       IN  /\ answer[1] \in Generated
           /\ answer[2] = "\n\n"
           /\ footer[1] = FooterDisclaimer
           /\ Len(footer) = 1 + Len(warnings) + notice + Len(recommendations)
           /\ \A i \in DOMAIN warnings : footer[1 + i] = <<"* ", warnings[i]>>
           /\ \A i \in DOMAIN recommendations :
                 footer[1 + Len(warnings) + notice + i] = <<"* ", recommendations[i]>>
           /\ ConflictNotice \in Range(footer) <=> conflict_info.has_conflicts

\* an answer with warnings, recommendations and the conflict notice
C18_Witness ==
    /\ Asking /\ Returned /\ result.type = "medical_info_validated"
    /\ conflict_info.has_conflicts
    /\ Len(content_validation.warnings) >= 2
    /\ content_validation.recommendations # <<>>
    /\ ConflictNotice \in Range(LinesFrom(result.answer, 1, <<>>))

\* C19: a call of load_medical_documents on a batch with a file that is
\* missing or cannot be read returns (it does not raise); that file is in
\* blocked_files, in no list handed to add_documents and not in safe_files;
\* every other file of the batch has its validation in validation_results and,
\* when the validation is safe, is handed to add_documents.
C19_BadFileDoesNotAbort ==
    (Loading /\ pc # "call")
    => LET bad == {p \in Range(file_paths) : ~ReadableFile(p)}
           others == Range(file_paths) \ bad
           handed == UNION {Range(added[i]) : i \in DOMAIN added}
       IN  /\ Returned
           /\ raised = <<>>
           /\ result # None
           /\ \A p \in bad :
                 /\ p \in Range(result.blocked_files)
                 /\ p \notin handed
                 /\ p \notin Range(result.safe_files)
                 /\ \A i \in DOMAIN result.success : result.success[i].file # p
           /\ \A p \in others :
                 /\ \E i \in DOMAIN result.validation_results :
                       /\ result.validation_results[i].file = p
                       /\ result.validation_results[i].validation = FileValidation(p)
                 /\ FileValidation(p).is_safe =>
                       p \in handed /\ p \in Range(result.safe_files)

\* an unreadable file followed by a safe file, which is admitted
C19_Witness ==
    /\ Loading /\ Returned
    /\ Len(file_paths) = 2
    /\ ~ReadableFile(file_paths[1])
    /\ files[file_paths[1]] = Unreadable
    /\ ReadableFile(file_paths[2])
    /\ added = << <<file_paths[2]>> >>
    /\ result.blocked_files = <<file_paths[1]>>

\* the locals of detect_conflicts after the first n facts, in a call made alone
RECURSIVE DetectPrefix(_, _)
DetectPrefix(content_lower, n) ==
    IF n = 0 THEN [conflicts |-> <<>>, suggestions |-> <<>>]
    ELSE DetectIteration(content_lower, n, DetectPrefix(content_lower, n - 1))

\* the locals that a call made alone has where this call is
AloneLocals(call) ==
    LET v1 == ValidateDangerous(ValidateStart, call.content)
        v2 == ValidateMisinformation(v1, call.content)
        v3 == ValidateReliability(v2, call.metadata)
        v4 == ValidateEmergency(v3, call.content)
    IN  CASE call.pc = "dangerous" -> ValidateStart
          [] call.pc = "misinformation" -> v1
          [] call.pc = "reliability" -> v2
          [] call.pc = "emergency" -> v3
          [] call.pc = "result" -> v4
          [] call.pc = "return" /\ call.op = "validate_content" -> v4
          [] call.pc = "fact" \/ (call.pc = "return" /\ call.op = "detect_conflicts") ->
                LET found == DetectPrefix(LowerText(call.content), call.locals.i - 1)
                IN  [conflicts |-> found.conflicts, suggestions |-> found.suggestions,
                     i |-> call.locals.i]

\* the value that the call returns when it is made alone
AloneResult(call) ==
    IF call.op = "validate_content"
    THEN validate_content(call.content, call.metadata)
    ELSE detect_conflicts(call.content)

\* C20: whatever the interleaving of the steps of the calls of validate_content
\* and detect_conflicts of several callers, the rule tables and the fact table
\* are the loaded ones, the locals of every call in progress are those of the
\* same call made alone (no call writes the lists of another), and every call
\* returns the value it returns when made alone.
C20_CallsIndependent ==
    /\ tables = LoadedTables
    /\ \A c \in Callers :
          calls[c].pc # "idle" =>
             /\ calls[c].locals = AloneLocals(calls[c])
             /\ calls[c].pc = "return" => calls[c].result = AloneResult(calls[c])

\* a call of validate_content with warnings returns while a call of another
\* caller, on another content, is in progress with warnings in its list
C20_Witness ==
    \E c, d \in Callers :
        /\ c # d
        /\ calls[c].pc = "return"
        /\ calls[c].op = "validate_content"
        /\ calls[c].result.warnings # <<>>
        /\ calls[d].op = "validate_content"
        /\ calls[d].pc \in {"reliability", "emergency"}
        /\ calls[d].content # calls[c].content
        /\ calls[d].locals.warnings # <<>>
        /\ ncalls = MaxCalls

Processing == op = "process_file"

\* C21: when embed_documents returned one vector for each text, the lists
\* texts, embeddings, metadatas and ids that process_file returns have the same
\* length, and the metadata at index i has chunk_index i and total_chunks that
\* length.
C21_ParallelLists ==
    (Processing /\ Returned /\ Len(result.embeddings) = Len(result.texts))
    => LET n == Len(result.texts)
       IN  /\ Len(result.embeddings) = n
           /\ Len(result.metadatas) = n
           /\ Len(result.ids) = n
           /\ \A k \in 1..n :
                 /\ get(result.metadatas[k], "chunk_index", None) = k - 1
                 /\ get(result.metadatas[k], "total_chunks", None) = n

\* two chunks, the second with the metadata of the loader, and two vectors
C21_Witness ==
    /\ Processing /\ Returned
    /\ Len(result.texts) = 2
    /\ Len(result.embeddings) = 2
    /\ get(result.metadatas[2], "chunk_index", None) = 1
    /\ result.ids[2] = <<basename(file_paths[1]), "_", "1", "_", "101e1726">>

\* the warnings and the corrections of the misinformation rules
MisinformationWarnings ==
    {PotentialError(_load_misinformation_patterns[i].category) :
        i \in DOMAIN _load_misinformation_patterns}

MisinformationCorrections ==
    {_load_misinformation_patterns[i].correction : i \in DOMAIN _load_misinformation_patterns}

\* the tenths deducted for a category that applies
Deduction(applies, tenths) == IF applies THEN tenths ELSE 0

\* C22, as claimed: in a call of validate_content in which a dangerous rule
\* matched, the result holds no misinformation warning and no correction, and
\* its confidence is without the 0.2 deduction.
C22_MisinformationSkippedAsClaimed ==
    (Validating /\ Returned /\ _check_dangerous_patterns(content) # <<>>)
    => /\ Range(result.warnings) \cap MisinformationWarnings = {}
       /\ Range(result.recommendations) \cap MisinformationCorrections = {}
       /\ result.confidence_score =
             Max(1, 8 - 4 - Deduction(result.reliability = "LOW", 3))

\* C22, amended: the misinformation rules are evaluated in every call of
\* validate_content; when one matches, a warning and a correction are appended
\* for each matching rule and 0.2 is deducted, whether a dangerous rule matched
\* or not; only the risk level is left at DANGEROUS instead of set to CAUTION.
C22_MisinformationAlways ==
    (Validating /\ Returned)
    => LET dangerous_found == _check_dangerous_patterns(content)
           misinformation_found == _check_misinformation(content)
       IN  /\ \A i \in DOMAIN misinformation_found :
                 /\ PotentialError(misinformation_found[i].category)
                       \in Range(result.warnings)
                 /\ misinformation_found[i].correction \in Range(result.recommendations)
           /\ misinformation_found = <<>> =>
                 /\ Range(result.warnings) \cap MisinformationWarnings = {}
                 /\ Range(result.recommendations) \cap MisinformationCorrections = {}
           /\ result.confidence_score =
                 Max(1, 8 - Deduction(dangerous_found # <<>>, 4)
                          - Deduction(misinformation_found # <<>>, 2)
                          - Deduction(result.reliability = "LOW", 3))
           /\ (misinformation_found # <<>> /\ dangerous_found # <<>>)
                 => result.risk_level = "DANGEROUS"
           /\ (misinformation_found # <<>> /\ dangerous_found = <<>>)
                 => result.risk_level = "CAUTION"

\* a dangerous rule and a misinformation rule match, no metadata: 0.8 - 0.4 - 0.2
C22_Witness ==
    /\ Validating /\ Returned
    /\ _check_dangerous_patterns(content) # <<>>
    /\ _check_misinformation(content) # <<>>
    /\ metadata = {}
    /\ result.risk_level = "DANGEROUS"
    /\ "potential error: definition error" \in Range(result.warnings)
    /\ result.confidence_score = 2

\* the number of places of a list that hold the item
Count(list, item) == Cardinality({i \in DOMAIN list : list[i] = item})

\* C23, as claimed: when the reliability is LOW and a dangerous or a
\* misinformation rule matched (the risk is CAUTION or DANGEROUS before step
\* 3), the result holds no low-reliability warning and its confidence is
\* without the 0.3 deduction.
C23_LowOnlyWhenSafeAsClaimed ==
    (/\ Validating /\ Returned
     /\ result.reliability = "LOW"
     /\ \/ _check_dangerous_patterns(content) # <<>>
        \/ _check_misinformation(content) # <<>>)
    => /\ "low reliability source" \notin Range(result.warnings)
       /\ result.confidence_score =
             Max(1, 8 - Deduction(_check_dangerous_patterns(content) # <<>>, 4)
                      - Deduction(_check_misinformation(content) # <<>>, 2))

\* C23, amended: whenever the reliability of a validate_content call is LOW,
\* the low-reliability warning is appended once and 0.3 is deducted, whatever
\* the risk; the risk is escalated to CAUTION only if it was still SAFE, and is
\* otherwise left as it is.  When the reliability is not LOW there is no
\* warning, no deduction and no escalation.
C23_LowAlwaysWarns ==
    (Validating /\ Returned)
    => LET dangerous_found == _check_dangerous_patterns(content)
           misinformation_found == _check_misinformation(content)
           before == ValidateMisinformation(
                         ValidateDangerous(ValidateStart, content), content)
       IN  /\ Count(result.warnings, "low reliability source")
                 = Deduction(result.reliability = "LOW", 1)
           /\ result.reliability = "LOW" =>
                 /\ result.confidence_score = Max(1, before.confidence_score - 3)
                 /\ result.risk_level =
                       (IF before.risk_level = "SAFE" THEN "CAUTION"
                                                      ELSE before.risk_level)
           /\ result.reliability # "LOW" =>
                 /\ result.confidence_score = Max(1, before.confidence_score)
                 /\ result.risk_level = before.risk_level

\* a LOW source with a misinformation match: CAUTION before step 3, and the
\* warning and the deduction are there all the same (0.8 - 0.2 - 0.3)
C23_Witness ==
    /\ Validating /\ Returned
    /\ _check_dangerous_patterns(content) = <<>>
    /\ _check_misinformation(content) # <<>>
    /\ result.reliability = "LOW"
    /\ result.risk_level = "CAUTION"
    /\ "low reliability source" \in Range(result.warnings)
    /\ result.confidence_score = 3

\* the result of validate_content had step 4 not been made
WithoutEmergencyStep(text, meta) ==
    ValidationResult(
        ValidateReliability(
            ValidateMisinformation(ValidateDangerous(ValidateStart, text), text), meta))

\* C24: the emergency-keyword step of validate_content changes neither the
\* risk level, nor is_safe, nor the reliability, nor the confidence; when a
\* keyword occurs the result differs from the one without the step by one
\* advisory warning and one recommendation, appended last, once each however
\* many keywords occur; when none occurs it does not differ.
C24_EmergencyOnlyAppends ==
    (Validating /\ Returned)
    => LET without == WithoutEmergencyStep(content, metadata)
           emergency_found == _check_emergency_keywords(content)
       IN  /\ result.risk_level = without.risk_level
           /\ result.is_safe = without.is_safe
           /\ result.reliability = without.reliability
           /\ result.confidence_score = without.confidence_score
           /\ emergency_found # <<>> =>
                 /\ result.warnings =
                       Append(without.warnings, "emergency content detected")
                 /\ result.recommendations =
                       Append(without.recommendations,
                              "call 119 or visit the emergency room")
           /\ emergency_found = <<>> =>
                 /\ result.warnings = without.warnings
                 /\ result.recommendations = without.recommendations

\* two emergency keywords after a misinformation match: one advisory warning
C24_Witness ==
    /\ Validating /\ Returned
    /\ Len(_check_emergency_keywords(content)) = 2
    /\ _check_misinformation(content) # <<>>
    /\ result.risk_level = "CAUTION"
    /\ Count(result.warnings, "emergency content detected") = 1
    /\ Count(result.recommendations, "call 119 or visit the emergency room") = 1

\* C25: validate_content deducts once for a category, not once for a match:
\* 0.4 when one or several dangerous rules match, 0.2 when one or several
\* misinformation rules match (and 0.3 for a LOW source), while the warnings
\* hold one message for each matching dangerous rule followed by one for each
\* matching misinformation rule.
C25_DeductionPerCategory ==
    (Validating /\ Returned)
    => LET dangerous_found == _check_dangerous_patterns(content)
           misinformation_found == _check_misinformation(content)
           nd == Len(dangerous_found)
           nm == Len(misinformation_found)
       IN  /\ result.confidence_score =
                 Max(1, 8 - (IF nd > 0 THEN 4 ELSE 0)
                          - (IF nm > 0 THEN 2 ELSE 0)
                          - (IF result.reliability = "LOW" THEN 3 ELSE 0))
           /\ Len(result.warnings) >= nd + nm
           /\ \A i \in 1..nd : result.warnings[i] = dangerous_found[i].message
           /\ \A i \in 1..nm :
                 result.warnings[nd + i] = PotentialError(misinformation_found[i].category)
           /\ Cardinality({i \in DOMAIN result.warnings :
                             result.warnings[i] \in MisinformationWarnings}) = nm

\* two misinformation rules match: two warnings, one deduction of 0.2
C25_Witness ==
    /\ Validating /\ Returned
    /\ Len(_check_misinformation(content)) = 2
    /\ _check_dangerous_patterns(content) = <<>>
    /\ result.reliability # "LOW"
    /\ Len(result.warnings) = 2
    /\ result.confidence_score = 6

\* SAFE < CAUTION < DANGEROUS
Rank(risk_level) ==
    CASE risk_level = "SAFE" -> 0
      [] risk_level = "CAUTION" -> 1
      [] risk_level = "DANGEROUS" -> 2

\* the level that a step of validate_content raises on its own
RaisedBy(applies, risk_level) == IF applies THEN Rank(risk_level) ELSE 0

\* a call of validate_content between its first and its last step
InSteps(c) ==
    /\ calls[c].op = "validate_content"
    /\ calls[c].pc \in {"dangerous", "misinformation", "reliability", "emergency", "result"}

\* C26: within a call of validate_content no step lowers the risk level in the
\* order SAFE < CAUTION < DANGEROUS (a risk that is DANGEROUS stays DANGEROUS),
\* and the level returned is the highest of the levels that the steps raise:
\* DANGEROUS for a dangerous match, CAUTION for a misinformation match, CAUTION
\* for a LOW source, SAFE otherwise.
C26_RiskMonotonic ==
    /\ [][\A c \in Callers :
             (InSteps(c) /\ calls'[c].op = "validate_content")
             => Rank(calls'[c].locals.risk_level) >= Rank(calls[c].locals.risk_level)]_vars
    /\ [](\A c \in Callers :
             (calls[c].op = "validate_content" /\ calls[c].pc = "return")
             => Rank(calls[c].result.risk_level) =
                   Max(RaisedBy(_check_dangerous_patterns(calls[c].content) # <<>>,
                                "DANGEROUS"),
                       Max(RaisedBy(_check_misinformation(calls[c].content) # <<>>,
                                    "CAUTION"),
                           RaisedBy(calls[c].metadata # {}
                                       /\ _assess_source_reliability(calls[c].metadata)
                                             = "LOW",
                                    "CAUTION"))))

\* a call that was DANGEROUS after step 1 has gone through a misinformation
\* match and a LOW source, and returns DANGEROUS
C26_Witness ==
    \E c \in Callers :
        /\ calls[c].op = "validate_content" /\ calls[c].pc = "return"
        /\ _check_dangerous_patterns(calls[c].content) # <<>>
        /\ _check_misinformation(calls[c].content) # <<>>
        /\ calls[c].result.reliability = "LOW"
        /\ calls[c].result.risk_level = "DANGEROUS"

\* a keyword of the set occurs in the lower-cased source or file name
HasKeyword(meta, keywords) ==
    (Substrings(Lower(get(meta, "source", "")))
        \cup Substrings(Lower(get(meta, "file_name", "")))) \cap keywords # {}

TrustedKeywords == {Lower(_load_trusted_sources[i]) : i \in DOMAIN _load_trusted_sources}

\* C27: the reliability of a validate_content call with metadata is HIGH when
\* a trusted keyword occurs in the source or in the file name, whatever else
\* occurs; LOW when no trusted keyword occurs and a personal one does, even
\* with a media keyword; MEDIUM when only a media keyword occurs; a keyword
\* in one of the two fields is enough.
C27_ReliabilityPriority ==
    (Validating /\ Returned /\ metadata # {})
    => LET trusted == HasKeyword(metadata, TrustedKeywords)
           personal == HasKeyword(metadata, Range(personal_sources))
           media == HasKeyword(metadata, Range(media_sources))
       IN  /\ trusted => result.reliability = "HIGH"
           /\ (~trusted /\ personal) => result.reliability = "LOW"
           /\ (~trusted /\ ~personal /\ media) => result.reliability = "MEDIUM"
           /\ (~trusted /\ ~personal /\ ~media) => result.reliability = "UNKNOWN"

\* WHO in a path under /blog/: a trusted and a personal keyword, HIGH
C27_Witness ==
    /\ Validating /\ Returned
    /\ metadata = {<<"source", "/blog/WHO_guide.txt">>, <<"file_name", "WHO_guide.txt">>}
    /\ HasKeyword(metadata, TrustedKeywords)
    /\ HasKeyword(metadata, Range(personal_sources))
    /\ result.reliability = "HIGH"

\* C28: in a call of ask_medical_question the validation is made with the
\* metadata {"source": "rag_search_results"}, whatever the metadata of the
\* retrieved chunks, so its reliability is UNKNOWN: there is no low-reliability
\* warning, escalation or deduction, no entry of the context carries the
\* low-reliability or the trusted-source note, and a safety_level "caution" is
\* returned only when a misinformation rule matched the combined content.
\* (The value of the validation is looked at where the validator has returned
\* it, pc = "detect"; no later step assigns content_validation.)
C28_QuestionPathUnknown ==
    Asking =>
       /\ content_validation # None =>
             /\ content_validation.reliability = "UNKNOWN"
             /\ "low reliability source" \notin Range(content_validation.warnings)
       /\ pc = "detect" =>
             LET combined == CombinedContent(search_results)
                 misinformation_found == _check_misinformation(combined)
             IN  /\ content_validation = validate_content(
                        combined, {<<"source", "rag_search_results">>})
                 /\ content_validation.confidence_score =
                       Max(1, 8 - Deduction(_check_dangerous_patterns(combined) # <<>>, 4)
                                - Deduction(misinformation_found # <<>>, 2))
                 /\ content_validation.risk_level = "CAUTION"
                       => misinformation_found # <<>>
       /\ context # None =>
             /\ "[low reliability]" \notin Range(context)
             /\ "[trusted source]" \notin Range(context)
             /\ \A i \in DOMAIN search_results :
                   \E k \in DOMAIN context :
                      /\ context[k] = "[source:"
                      /\ context[k + 1] = get(search_results[i].metadata,
                                              "file_name", "Unknown")
                      /\ context[k + 2] = "]"
       /\ (Returned /\ result.safety_level = "caution")
             => /\ content_validation.risk_level = "CAUTION"
                /\ _check_misinformation(CombinedContent(search_results)) # <<>>

\* a chunk of a file with a personal keyword in its name and a misinformation
\* match: caution, reliability UNKNOWN, the context entry without a note
C28_Witness ==
    /\ Asking /\ Returned
    /\ \E i \in DOMAIN search_results :
          search_results[i].metadata = {<<"file_name", "blog_medical.txt">>}
    /\ _assess_source_reliability({<<"file_name", "blog_medical.txt">>}) = "LOW"
    /\ context # None
    /\ content_validation.reliability = "UNKNOWN"
    /\ result.safety_level = "caution"

\* the place of a key in the fact table
FactIndex(fact_key) ==
    CHOOSE i \in DOMAIN _load_medical_facts : _load_medical_facts[i].key = fact_key

ConflictTypes == {"definition conflict", "treatment information conflict", "treatment conflict"}

\* C29: every result of detect_conflicts holds at most three conflict records,
\* each made by the predicate of one of the three facts 고혈압_정의,
\* 당뇨병_완치 and 감기_항생제 (none for 정상체온 or 응급실_방문), at most one
\* for a fact, in the order of the fact table.
C29_OneRecordPerFact ==
    \A d \in Detected :
        /\ Len(d.conflicts) <= 3
        /\ \A i \in DOMAIN d.conflicts : d.conflicts[i].type \in ConflictTypes
        /\ \A i \in DOMAIN d.conflicts :
              /\ ProducingKey(d.conflicts[i].type)
                    \notin {"jeongsangcheon", "eunggeupsil_bangmun"}
              /\ d.conflicts[i].standard \notin
                    {FactText("jeongsangcheon"), FactText("eunggeupsil_bangmun")}
        /\ \A i, j \in DOMAIN d.conflicts :
              i < j => FactIndex(ProducingKey(d.conflicts[i].type))
                          < FactIndex(ProducingKey(d.conflicts[j].type))

\* the three predicates hold for one content: three records, in table order
C29_Witness ==
    /\ Detecting /\ Returned
    /\ Len(result.conflicts) = 3
    /\ result.conflicts[1].type = "definition conflict"
    /\ result.conflicts[2].type = "treatment information conflict"
    /\ result.conflicts[3].type = "treatment conflict"

\* no path occurs twice in the list
Distinct(paths) == \A i, j \in DOMAIN paths : paths[i] = paths[j] => i = j

\* C30: for a batch of distinct paths the safe_files and the blocked_files
\* that load_medical_documents returns are disjoint, together hold every path
\* of the batch, and each keeps the order of the batch; a readable file rated
\* CAUTION (a misinformation match or a LOW source, no dangerous match) is in
\* safe_files and in the list handed to add_documents.
C30_SafeBlockedPartition ==
    (Loading /\ Returned /\ Distinct(file_paths))
    => /\ Range(result.safe_files) \cap Range(result.blocked_files) = {}
       /\ Range(result.safe_files) \cup Range(result.blocked_files) = Range(file_paths)
       /\ result.safe_files =
             SelectSeq(file_paths, LAMBDA f : f \in Range(result.safe_files))
       /\ result.blocked_files =
             SelectSeq(file_paths, LAMBDA f : f \in Range(result.blocked_files))
       /\ \A p \in Range(file_paths) :
             (ReadableFile(p) /\ FileValidation(p).risk_level = "CAUTION")
             => /\ p \in Range(result.safe_files)
                /\ p \notin Range(result.blocked_files)
                /\ added = <<result.safe_files>>

\* a batch of a dangerous file and a file rated CAUTION: the first is blocked,
\* the second is safe and handed to add_documents
C30_Witness ==
    /\ Loading /\ Returned
    /\ Len(file_paths) = 2 /\ Distinct(file_paths)
    /\ ReadableFile(file_paths[1]) /\ ReadableFile(file_paths[2])
    /\ FileValidation(file_paths[1]).risk_level = "DANGEROUS"
    /\ FileValidation(file_paths[2]).risk_level = "CAUTION"
    /\ result.blocked_files = <<file_paths[1]>>
    /\ result.safe_files = <<file_paths[2]>>
    /\ added = <<(<<file_paths[2]>>)>>

====
